---- MODULE Spec2Model ----
(***************************************************************************)
(* Model of the paginated fetch engines of ld-util:                        *)
(*   - getAllApprovalRequestsParallel  (offset-partitioned workers)        *)
(*   - getAllAuditLogEntriesParallel   (time-partitioned workers)          *)
(*   - the sequential fetchers getAllAuditLogEntries,                      *)
(*     getAllApprovalRequests and getAllFlagStatuses (retry loop)          *)
(* The runtime is single-threaded and cooperative: a task runs from one    *)
(* suspension point (await, yield) to the next without interruption, so    *)
(* every action below is one such run.                                     *)
(***************************************************************************)
EXTENDS Integers, Sequences, FiniteSets, TLC

(***************************************************************************)
(* Program constants                                                       *)
(***************************************************************************)
\* get-all-approval-requests.ts:271 (and maxLimit, :327)
maxRecordsPerRequest == 200
\* get-all-approval-requests.ts:313, get-all-audit-log-entries.ts:195
reportInterval == 50
\* get-all-approval-requests.ts:37: page size of the sequential fetcher without max
defaultLimit == 20
\* get-all-audit-log-entries.ts:45: page size asked by getAllAuditLogEntries
auditLimit == 20
\* get-all-audit-log-entries.ts:90: fixed delay of the 5xx / network retry, in ms
retryDelayMs == 1000
\* get-all-audit-log-entries.ts:79: cap of the wait after a 429 with a reset header
rateLimitCapMs == 1000
\* get-all-audit-log-entries.ts:78: X-RateLimit-Reset is read as seconds
msPerSecond == 1000

(***************************************************************************)
(* Bounds of the model                                                     *)
(***************************************************************************)
\* parallelChunks ranges over 1..MaxParallelChunks
MaxParallelChunks == 3
\* largest totalCount a run of the approvals engine is checked with
MaxTotalCount == 201
\* the partitioners are applied to every parallelChunks in 1..MaxPartitionChunks,
\* the offset partitioner to every totalCount in 0..MaxPartitionTotal and offset
\* in 0..MaxOffset
MaxPartitionChunks == 4
MaxPartitionTotal == 610
MaxOffset == 2
\* the time partitioner is applied to every 0 <= after, before <= MaxTime
MaxTime == 7
\* transient (retried) failures the endpoint answers with during one run
MaxFaults == 2
\* the audit engine runs with parallelChunks in 1..MaxAuditChunks
MaxAuditChunks == 2
\* records inserted in front of the dataset during one run
MaxDrift == 1
\* the audit engine runs over [0, MaxAuditTime], the entries dated within
MaxAuditTime == 2
\* retried answers (429, 5xx, network error) during one sequential run
MaxSeqFaults == 2
\* a 429 announces a reset 0..MaxResetAhead seconds after the current second
MaxResetAhead == 2
\* time between a request and the reading of Date.now() after its response, ms
LatencyMs == 100
\* page size of the flag-statuses endpoint, which is asked without a limit
FlagStatusPageSize == 2
\* largest listing a sequential fetcher is run on
MaxSeqTotal == 21
\* scenario A: records of the fixture (ids 1..ScenarioRecords), parallelChunks
\* asked for, and the page size the scenario assumes
ScenarioRecords == 500
ScenarioChunks == 10
ScenarioPageSize == 50
\* the worker page loop alone: largest listing, records deleted during a run,
\* and pages the endpoint answers shorter than it could
MaxLoopTotal == 3
MaxShrink == 2
MaxShortPages == 2
\* the runs followed to their end: parallelChunks asked for, and the end of the
\* time range of the audit engine
MaxFairChunks == 2
\* the progress reports: entries of the audit log a worker pushes one by one
MaxReportEntries == 101
MaxFairTime == 2

(***************************************************************************)
(* Arithmetic of the runtime                                               *)
(***************************************************************************)
Min(a, b) == IF a <= b THEN a ELSE b
Max(a, b) == IF a >= b THEN a ELSE b

\* Math.ceil(a / b) for b > 0 (\div rounds down, also for negative a)
Ceil(a, b) == -((-a) \div b)

\* Percentage with Math.floor in place of Math.round
PercentageFloor(c, t) == (100 * c) \div t

\* Math.round((c / t) * 100) for t > 0: halves round up
Percentage(c, t) == (200 * c + t) \div (2 * t)

\* the value standing for "no error" in hasError and for an unset option
NoError == [status |-> 0, chunk |-> -1]
Unset == 0

(***************************************************************************)
(* State                                                                   *)
(***************************************************************************)
VARIABLES
    \* options of the call
    engine,               \* "approvals" | "audit": which parallel engine runs
    parallelChunks,       \* options.parallelChunks
    max,                  \* options.max (Unset when absent or 0)
    offset,               \* options.offset (Unset when absent or 0)
    after,                \* options.after, ms
    before,               \* options.before, ms
    keepFetched,          \* whether the events observed keep their
                          \* totalEntriesFetched field (it is dropped in the
                          \* runs whose properties do not read it)
    \* the endpoint
    dataset,              \* the listing served: the record at offset k has _id first + k
    auditlog,             \* audit entries [_id, date], newest first
    inclusive,            \* whether the audit endpoint includes date = after / before
    faults,               \* retried failures answered so far
    drift,                \* records inserted in front of the dataset so far
    \* the coordinator (body of the async generator)
    cpc,                  \* where the generator is suspended
    totalCount,           \* countData.totalCount || 0
    chunks,               \* the ranges of the partitioner
    seenIds,
    completedChunks,
    totalEntriesFetched,
    totalDuplicates,
    queue,
    activeChunks,
    hasError,
    \* the chunk workers: worker[i] runs chunks[i], chunkIndex i - 1 in the source
    worker,
    \* what the caller observes
    yielded,              \* the _ids of the records yielded, in order
    yieldedFrom,          \* for each record yielded, the worker that pushed it
                          \* and its rank among the records of that worker
    raised,               \* the error thrown to the caller
    events,               \* the progress events passed to onProgress, in order
    \* a sequential fetcher (body of its async generator) and its clock
    fetcher,              \* "auditlog" | "approvals" | "flagstatuses"
    spc,                  \* where the generator is suspended
    nextUrl,              \* the URL requested next: its offset and limit parameters
    yieldedCount,         \* yieldedCount of getAllApprovalRequests
    page,                 \* the page being yielded: items left, and the response
    now,                  \* Date.now(), ms
    waitMs,               \* the delay of the pending setTimeout
    fetchLog              \* the requests made and how each was answered

optVars == <<engine, parallelChunks, max, offset, after, before, keepFetched>>
envVars == <<dataset, auditlog, inclusive, faults, drift>>
coordVars == <<cpc, totalCount, chunks, seenIds, completedChunks,
               totalEntriesFetched, totalDuplicates, queue, activeChunks, hasError>>
obsVars == <<yielded, yieldedFrom, raised, events>>
seqVars == <<fetcher, spc, nextUrl, yieldedCount, page, now, waitMs, fetchLog>>
vars == <<optVars, envVars, coordVars, worker, obsVars, seqVars>>

(***************************************************************************)
(* RangePartitioner                                                        *)
(***************************************************************************)
\* RecordsToFetch with options.max ignored
RecordsToFetchNoMax(total, mx, off) == total - off

\* recordsToFetch of getAllApprovalRequestsParallel
RecordsToFetch(total, mx, off) ==
    IF mx # Unset THEN Min(mx, total - off) ELSE total - off

\* EffectiveParallelChunks without the shrinking to the pages needed
EffectiveParallelChunksUnshrunk(P, R) == P

\* effectiveParallelChunks
EffectiveParallelChunks(P, R) == Min(P, Ceil(R, maxRecordsPerRequest))

\* the loop building the offset chunks, from index i on
RECURSIVE OffsetChunksFrom(_, _, _, _, _)
OffsetChunksFrom(i, eff, chunkSize, startingOffset, R) ==
    IF i >= eff THEN <<>>
    ELSE LET chunkStartOffset == startingOffset + (i * chunkSize)
             chunkEndOffset == Min(chunkStartOffset + chunkSize, startingOffset + R)
         IN  IF chunkStartOffset >= startingOffset + R THEN <<>>
             ELSE <<[startOffset |-> chunkStartOffset, endOffset |-> chunkEndOffset]>>
                  \o OffsetChunksFrom(i + 1, eff, chunkSize, startingOffset, R)

\* OffsetChunks with the end of a chunk not cut at the end of the domain
OffsetChunksUncut(P, o, R) ==
    LET eff == EffectiveParallelChunks(P, R)
        chunkSize == Ceil(R, eff)
    IN  [i \in 1..eff |-> [startOffset |-> o + ((i - 1) * chunkSize),
                           endOffset |-> o + (i * chunkSize)]]

\* OffsetChunks with the chunk size rounded down instead of up
OffsetChunksFloor(P, o, R) ==
    LET eff == EffectiveParallelChunks(P, R)
        chunkSize == R \div eff
    IN  OffsetChunksFrom(0, eff, chunkSize, o, R)

\* the offset chunks for P workers, starting offset o and R > 0 records
OffsetChunks(P, o, R) ==
    LET eff == EffectiveParallelChunks(P, R)
        chunkSize == Ceil(R, eff)
    IN  OffsetChunksFrom(0, eff, chunkSize, o, R)

\* TimeChunk with the end of the chunk taken one ms short
TimeChunkShortEnd(i, chunkSize, aft, bef) ==
    [after |-> aft + (i * chunkSize),
     before |-> Min(aft + ((i + 1) * chunkSize), bef) - 1]

\* one time chunk of getAllAuditLogEntriesParallel
TimeChunk(i, chunkSize, aft, bef) ==
    [after |-> aft + (i * chunkSize),
     before |-> Min(aft + ((i + 1) * chunkSize), bef)]

\* the time chunks for P workers over [aft, bef]
TimeChunks(P, aft, bef) ==
    LET totalRange == bef - aft
        chunkSize == Ceil(totalRange, P)
    IN  [i \in 1..P |-> TimeChunk(i - 1, chunkSize, aft, bef)]

(***************************************************************************)
(* The listing endpoints.  A record is represented by its _id.             *)
(***************************************************************************)
OkStatus == 200
\* the non-2xx answers: a server error (retried by getAllAuditLogEntries like
\* a 429) and a client error
NonOkStatuses == {500, 404}

\* GET /api/v2/approval-requests?offset=off&limit=lim on dataset ds
ApprovalsPage(ds, off, lim) ==
    [k \in 1..Max(0, Min(lim, ds.count - off)) |-> ds.first + off + (k - 1)]

\* whether the audit endpoint returns an entry dated d for ?after=aft&before=bef
InTimeRange(d, aft, bef) ==
    IF inclusive THEN aft <= d /\ d <= bef ELSE aft < d /\ d < bef

\* the _ids of the entries of log in the time range, in the endpoint's order
RECURSIVE AuditMatches(_, _, _)
AuditMatches(log, aft, bef) ==
    IF log = <<>> THEN <<>>
    ELSE (IF InTimeRange(Head(log).date, aft, bef) THEN <<Head(log)._id>> ELSE <<>>)
         \o AuditMatches(Tail(log), aft, bef)

\* GET /api/v2/auditlog?limit=20&after=aft&before=bef, continued at cursor
AuditPage(log, aft, bef, cursor) ==
    LET all == AuditMatches(log, aft, bef)
        last == Min(cursor + auditLimit, Len(all))
    IN  [items |-> SubSeq(all, cursor + 1, last),
         next |-> IF last < Len(all) THEN last ELSE -1]

(***************************************************************************)
(* Progress events                                                         *)
(***************************************************************************)
\* the event types whose events carry totalEntriesFetched
WithFetched == {"chunk_start", "fetching", "chunk_complete"}

\* an event as the callback gets it at the point of the call; -1: field absent
Event(type, total, completed, pct, idx, entries, unique, dups) ==
    [type |-> type, totalChunks |-> total, completedChunks |-> completed,
     percentage |-> pct, chunkIndex |-> idx, entriesCount |-> entries,
     uniqueEntries |-> unique, duplicatesRemoved |-> dups,
     totalEntriesFetched |-> IF keepFetched /\ type \in WithFetched
                             THEN totalEntriesFetched ELSE -1]

\* totalChunks as the events of the running engine report it
TotalChunks(chs) == IF engine = "approvals" THEN Len(chs) ELSE parallelChunks

StartEvent(chs) == Event("start", TotalChunks(chs), 0, 0, -1, -1, -1, -1)

ChunkStartEvent(chs, i) ==
    Event("chunk_start", TotalChunks(chs), completedChunks, 0, i - 1, -1, -1, -1)

FetchingEvent(i, completed, chunkEntries) ==
    Event("fetching", TotalChunks(chunks), completed,
          Percentage(completed, TotalChunks(chunks)), i - 1, chunkEntries, -1, -1)

ChunkCompleteEvent(i, completed, chunkEntries) ==
    Event("chunk_complete", TotalChunks(chunks), completed,
          Percentage(completed, TotalChunks(chunks)), i - 1, chunkEntries, -1, -1)

CompleteEvent(total, unique, dups) ==
    Event("complete", total, total, 100, -1, -1, unique, dups)

(***************************************************************************)
(* ChunkWorker                                                             *)
(***************************************************************************)
\* the record object with identifier id that worker i received as the rank-th
\* record of its chunk
Entry(id, i, rank) == [_id |-> id, chunk |-> i, rank |-> rank]

\* PushEntry that reports once more than reportInterval entries are unreported
PushEntryLate(st, i, id) ==
    LET chunkEntries == st.chunkEntries + 1
        report == chunkEntries - st.lastReportedCount > reportInterval
    IN  [queue |-> Append(st.queue, Entry(id, i, chunkEntries)),
         chunkEntries |-> chunkEntries,
         lastReportedCount |-> IF report THEN chunkEntries ELSE st.lastReportedCount,
         events |-> IF report
                    THEN Append(st.events, FetchingEvent(i, completedChunks, chunkEntries))
                    ELSE st.events]

\* queue.push(entry); chunkEntries++; report every reportInterval entries
PushEntry(st, i, id) ==
    LET chunkEntries == st.chunkEntries + 1
        report == chunkEntries - st.lastReportedCount >= reportInterval
    IN  [queue |-> Append(st.queue, Entry(id, i, chunkEntries)),
         chunkEntries |-> chunkEntries,
         lastReportedCount |-> IF report THEN chunkEntries ELSE st.lastReportedCount,
         events |-> IF report
                    THEN Append(st.events, FetchingEvent(i, completedChunks, chunkEntries))
                    ELSE st.events]

\* PushEntries into a queue that holds at most maxRecordsPerRequest entries: the
\* entries that do not fit are dropped
PushEntriesBounded(st, i, items) ==
    LET chunkEntries == st.chunkEntries + Len(items)
        all == st.queue \o
                  [k \in 1..Len(items) |-> Entry(items[k], i, st.chunkEntries + k)]
    IN  [queue |-> SubSeq(all, 1, Min(Len(all), maxRecordsPerRequest)),
         chunkEntries |-> chunkEntries,
         lastReportedCount |-> st.lastReportedCount,
         events |-> st.events]

\* for (const entry of data.items) { PushEntry }, all items of one page in one
\* run: chunkEntries grows by one per entry, so a report is due exactly each
\* time it reaches lastReportedCount + reportInterval
PushEntries(st, i, items) ==
    LET chunkEntries == st.chunkEntries + Len(items)
        reports == (chunkEntries - st.lastReportedCount) \div reportInterval
        reportedAt(k) == st.lastReportedCount + (k * reportInterval)
    IN  [queue |-> st.queue \o
                   [k \in 1..Len(items) |-> Entry(items[k], i, st.chunkEntries + k)],
         chunkEntries |-> chunkEntries,
         lastReportedCount |-> reportedAt(reports),
         events |-> st.events \o
                    [k \in 1..reports |->
                        FetchingEvent(i, completedChunks, reportedAt(k))]]

WorkerPushState(i) ==
    [queue |-> queue, chunkEntries |-> worker[i].chunkEntries,
     lastReportedCount |-> worker[i].lastReportedCount, events |-> events]

\* the worker of chunk i right after its synchronous start: first request out
LaunchedWorker(chs, i) ==
    [pc |-> "fetch", chunkEntries |-> 0, lastReportedCount |-> 0,
     currentOffset |-> IF engine = "approvals" THEN chs[i].startOffset ELSE 0,
     requests |-> 1, nextUrl |-> 0, buffer |-> <<>>, link |-> -1]

\* WorkerLimit of a worker that asks for a full page whatever is left of its chunk
WorkerLimitFull(i) == maxRecordsPerRequest

\* the limit of the page request the approvals worker i has outstanding
WorkerLimit(i) ==
    LET targetItemCount == chunks[i].endOffset - chunks[i].startOffset
        remaining == targetItemCount - worker[i].chunkEntries
    IN  Min(remaining, maxRecordsPerRequest)

\* the worker's loop is over: chunk_complete, then finally { activeChunks-- }
WorkerCompletes(i, st) ==
    /\ completedChunks' = completedChunks + 1
    /\ events' = Append(st.events,
                        ChunkCompleteEvent(i, completedChunks + 1, st.chunkEntries))
    /\ activeChunks' = activeChunks - 1
    /\ UNCHANGED hasError

\* WorkerFails with the sibling workers cancelled by the failure
WorkerFailsCancelling(i, status) ==
    /\ hasError' = [status |-> status, chunk |-> i - 1]
    /\ activeChunks' = 0
    /\ worker' = [j \in DOMAIN worker |->
                     IF j = i THEN [worker[j] EXCEPT !.pc = "failed"]
                     ELSE IF worker[j].pc \in {"done", "failed"} THEN worker[j]
                     ELSE [worker[j] EXCEPT !.pc = "cancelled"]]
    /\ UNCHANGED <<queue, events, completedChunks, faults>>

\* WorkerFails that also resets the counters of the other workers
WorkerFailsResetting(i, status) ==
    /\ hasError' = [status |-> status, chunk |-> i - 1]
    /\ activeChunks' = activeChunks - 1
    /\ worker' = [j \in DOMAIN worker |->
                     IF j = i THEN [worker[j] EXCEPT !.pc = "failed"]
                     ELSE [worker[j] EXCEPT !.chunkEntries = 0,
                                            !.lastReportedCount = 0]]
    /\ UNCHANGED <<queue, events, completedChunks, faults>>

\* WorkerFails without the finally block
WorkerFailsNoFinally(i, status) ==
    /\ hasError' = [status |-> status, chunk |-> i - 1]
    /\ worker' = [worker EXCEPT ![i].pc = "failed"]
    /\ UNCHANGED <<queue, events, completedChunks, faults, activeChunks>>

\* catch (err) { hasError = err } finally { activeChunks-- }
WorkerFails(i, status) ==
    /\ hasError' = [status |-> status, chunk |-> i - 1]
    /\ activeChunks' = activeChunks - 1
    /\ worker' = [worker EXCEPT ![i].pc = "failed"]
    /\ UNCHANGED <<queue, events, completedChunks, faults>>

\* ApprovalsWorkerPage without the break on a page of zero items
ApprovalsWorkerPageNoBreak(i, items) ==
    LET st == PushEntries(WorkerPushState(i), i, items)
        targetItemCount == chunks[i].endOffset - chunks[i].startOffset
        more == st.chunkEntries < targetItemCount
        wk == [worker[i] EXCEPT
                  !.chunkEntries = st.chunkEntries,
                  !.lastReportedCount = st.lastReportedCount,
                  !.currentOffset = @ + Len(items)]
    IN  /\ queue' = st.queue
        /\ IF more
           THEN /\ worker' = [worker EXCEPT ![i] = [wk EXCEPT !.requests = @ + 1]]
                /\ events' = st.events
                /\ UNCHANGED <<completedChunks, activeChunks, hasError>>
           ELSE /\ worker' = [worker EXCEPT ![i] = [wk EXCEPT !.pc = "done"]]
                /\ WorkerCompletes(i, st)

\* the rest of one iteration of the page loop of worker i once data.items is
\* read: push the items, move the offset, break on zero items, and either
\* issue the next request or leave the loop
ApprovalsWorkerPage(i, items) ==
    LET st == PushEntries(WorkerPushState(i), i, items)
        targetItemCount == chunks[i].endOffset - chunks[i].startOffset
        more == Len(items) # 0 /\ st.chunkEntries < targetItemCount
        wk == [worker[i] EXCEPT
                  !.chunkEntries = st.chunkEntries,
                  !.lastReportedCount = st.lastReportedCount,
                  !.currentOffset = @ + Len(items)]
    IN  /\ queue' = st.queue
        /\ IF more
           THEN /\ worker' = [worker EXCEPT ![i] = [wk EXCEPT !.requests = @ + 1]]
                /\ events' = st.events
                /\ UNCHANGED <<completedChunks, activeChunks, hasError>>
           ELSE /\ worker' = [worker EXCEPT ![i] = [wk EXCEPT !.pc = "done"]]
                /\ WorkerCompletes(i, st)

\* a page request of approvals worker i is answered
ApprovalsWorkerResponse(i, status) ==
    /\ engine = "approvals"
    /\ i \in DOMAIN worker
    /\ worker[i].pc = "fetch"
    /\ \/ /\ status = OkStatus
          /\ ApprovalsWorkerPage(i, ApprovalsPage(dataset, worker[i].currentOffset,
                                                  WorkerLimit(i)))
          /\ UNCHANGED faults
       \/ /\ status \in NonOkStatuses
          /\ WorkerFails(i, status)
    /\ UNCHANGED <<seqVars, optVars, dataset, auditlog, inclusive, drift, cpc, totalCount,
                   chunks, seenIds, totalEntriesFetched, totalDuplicates, yielded, yieldedFrom,
                   raised>>

\* a page request of approvals worker i is answered 200 with only the first n
\* of the items the listing holds for it
ApprovalsWorkerShortPage(i, n) ==
    /\ engine = "approvals"
    /\ i \in DOMAIN worker
    /\ worker[i].pc = "fetch"
    /\ faults < MaxShortPages
    /\ LET items == ApprovalsPage(dataset, worker[i].currentOffset, WorkerLimit(i))
       IN  /\ n < Len(items)
           /\ ApprovalsWorkerPage(i, SubSeq(items, 1, n))
    /\ faults' = faults + 1
    /\ UNCHANGED <<seqVars, optVars, dataset, auditlog, inclusive, drift, cpc, totalCount,
                   chunks, seenIds, totalEntriesFetched, totalDuplicates, yielded, yieldedFrom,
                   raised>>

\* a page request of getAllAuditLogEntries, run by audit worker i, is answered
AuditWorkerResponse(i, status) ==
    /\ engine = "audit"
    /\ i \in DOMAIN worker
    /\ worker[i].pc = "fetch"
    /\ \/ /\ status = OkStatus
          /\ LET data == AuditPage(auditlog, chunks[i].after, chunks[i].before,
                                   worker[i].nextUrl)
             IN  IF data.items # <<>>
                 THEN /\ worker' = [worker EXCEPT ![i].pc = "push",
                                                  ![i].buffer = data.items,
                                                  ![i].link = data.next]
                      /\ UNCHANGED <<events, completedChunks, activeChunks, hasError>>
                 ELSE /\ worker' = [worker EXCEPT ![i].pc = "done"]
                      /\ WorkerCompletes(i, WorkerPushState(i))
          /\ UNCHANGED <<faults, queue>>
       \/ /\ status = 500
          /\ faults < MaxFaults
          /\ faults' = faults + 1
          /\ worker' = [worker EXCEPT ![i].pc = "sleep"]
          /\ UNCHANGED <<queue, events, completedChunks, activeChunks, hasError>>
       \/ /\ status \in NonOkStatuses \ {500}
          /\ WorkerFails(i, status)
    /\ UNCHANGED <<seqVars, optVars, dataset, auditlog, inclusive, drift, cpc, totalCount,
                   chunks, seenIds, totalEntriesFetched, totalDuplicates, yielded, yieldedFrom,
                   raised>>

\* the retry delay of getAllAuditLogEntries is over: the same URL is requested
AuditWorkerRetry(i) ==
    /\ engine = "audit"
    /\ i \in DOMAIN worker
    /\ worker[i].pc = "sleep"
    /\ worker' = [worker EXCEPT ![i].pc = "fetch", ![i].requests = @ + 1]
    /\ UNCHANGED <<seqVars, optVars, envVars, coordVars, obsVars>>

\* one iteration of the worker's for await: the next entry of the page is pushed
AuditWorkerPush(i) ==
    /\ engine = "audit"
    /\ i \in DOMAIN worker
    /\ worker[i].pc = "push"
    /\ LET st == PushEntry(WorkerPushState(i), i, Head(worker[i].buffer))
           rest == Tail(worker[i].buffer)
           wk == [worker[i] EXCEPT
                     !.chunkEntries = st.chunkEntries,
                     !.lastReportedCount = st.lastReportedCount,
                     !.buffer = rest]
       IN  /\ queue' = st.queue
           /\ IF rest # <<>>
              THEN /\ worker' = [worker EXCEPT ![i] = wk]
                   /\ events' = st.events
                   /\ UNCHANGED <<completedChunks, activeChunks, hasError>>
              ELSE IF wk.link # -1
              THEN /\ worker' = [worker EXCEPT
                                    ![i] = [wk EXCEPT !.pc = "fetch",
                                                      !.nextUrl = wk.link,
                                                      !.requests = @ + 1]]
                   /\ events' = st.events
                   /\ UNCHANGED <<completedChunks, activeChunks, hasError>>
              ELSE /\ worker' = [worker EXCEPT ![i] = [wk EXCEPT !.pc = "done"]]
                   /\ WorkerCompletes(i, st)
    /\ UNCHANGED <<seqVars, optVars, envVars, cpc, totalCount, chunks, seenIds,
                   totalEntriesFetched, totalDuplicates, yielded, yieldedFrom, raised>>

\* a record is created while workers fetch: every later offset shifts by one
Drift ==
    /\ engine = "approvals"
    /\ drift < MaxDrift
    /\ \E i \in DOMAIN worker : worker[i].pc = "fetch"
    /\ dataset' = [first |-> dataset.first - 1, count |-> dataset.count + 1]
    /\ drift' = drift + 1
    /\ UNCHANGED <<seqVars, optVars, auditlog, inclusive, faults, coordVars, worker, obsVars>>

\* the last record of the listing is deleted while workers fetch
Shrink ==
    /\ engine = "approvals"
    /\ drift < MaxShrink
    /\ dataset.count > 0
    /\ \E i \in DOMAIN worker : worker[i].pc = "fetch"
    /\ dataset' = [dataset EXCEPT !.count = @ - 1]
    /\ drift' = drift + 1
    /\ UNCHANGED <<seqVars, optVars, auditlog, inclusive, faults, coordVars, worker, obsVars>>

(***************************************************************************)
(* Coordinator: the merge loop                                             *)
(***************************************************************************)
MergeState(out, q, seen, fetched, dups, entry) ==
    [out |-> out, queue |-> q, seenIds |-> seen, totalEntriesFetched |-> fetched,
     totalDuplicates |-> dups, entry |-> entry]

\* Drain with the duplicates dropped but not counted
RECURSIVE DrainUncounted(_, _, _, _)
DrainUncounted(q, seen, fetched, dups) ==
    IF Len(q) = 0 THEN [out |-> "empty", queue |-> q, seenIds |-> seen,
                        totalEntriesFetched |-> fetched, totalDuplicates |-> dups,
                        entry |-> 0]
    ELSE IF Head(q)._id \notin seen
         THEN [out |-> "yield", queue |-> Tail(q), seenIds |-> seen \cup {Head(q)._id},
               totalEntriesFetched |-> fetched + 1, totalDuplicates |-> dups,
               entry |-> Head(q)]
         ELSE DrainUncounted(Tail(q), seen, fetched, dups)

\* Drain without the test of seenIds: every record shifted is yielded
DrainUnchecked(q, seen, fetched, dups) ==
    IF Len(q) = 0 THEN MergeState("empty", q, seen, fetched, dups, 0)
    ELSE MergeState("yield", Tail(q), seen \cup {Head(q)._id}, fetched + 1, dups,
                    Head(q))

\* Drain taking the entries from the end of the queue (pop instead of shift)
RECURSIVE DrainLifo(_, _, _, _)
DrainLifo(q, seen, fetched, dups) ==
    IF Len(q) = 0 THEN MergeState("empty", q, seen, fetched, dups, 0)
    ELSE LET entry == q[Len(q)]
             rest == SubSeq(q, 1, Len(q) - 1)
         IN  IF entry._id \notin seen
             THEN MergeState("yield", rest, seen \cup {entry._id}, fetched + 1, dups,
                             entry)
             ELSE DrainLifo(rest, seen, fetched, dups + 1)

\* Drain with a duplicate counted as fetched as well
RECURSIVE DrainRecount(_, _, _, _)
DrainRecount(q, seen, fetched, dups) ==
    IF Len(q) = 0 THEN MergeState("empty", q, seen, fetched, dups, 0)
    ELSE LET entry == Head(q)
             id == entry._id
         IN  IF id \notin seen
             THEN MergeState("yield", Tail(q), seen \cup {id}, fetched + 1, dups, entry)
             ELSE DrainRecount(Tail(q), seen, fetched + 1, dups + 1)

\* while (queue.length > 0) { shift; unseen: add, count, yield; seen: count }
\* run up to the next yield ("yield") or to the empty queue ("empty")
RECURSIVE Drain(_, _, _, _)
Drain(q, seen, fetched, dups) ==
    IF Len(q) = 0 THEN MergeState("empty", q, seen, fetched, dups, 0)
    ELSE LET entry == Head(q)
             id == entry._id
         IN  IF id \notin seen
             THEN MergeState("yield", Tail(q), seen \cup {id}, fetched + 1, dups, entry)
             ELSE Drain(Tail(q), seen, fetched, dups + 1)

\* the merge loop from the inner while on, up to its next suspension or end
MergeInner(active, q, seen, fetched, dups) ==
    LET d == Drain(q, seen, fetched, dups)
    IN  IF d.out = "yield" THEN d
        ELSE IF active > 0 /\ Len(d.queue) = 0
        THEN [d EXCEPT !.out = "wait"]
        \* no worker is active and the queue is empty: the outer condition is
        \* false at the next test, whatever hasError holds
        ELSE [d EXCEPT !.out = "complete"]

\* MergeLoop whose outer while tests the active workers only: it ends with
\* the records left in the queue when no worker is active
MergeLoopEarlyExit(active, err, q, seen, fetched, dups) ==
    IF active > 0
    THEN IF err # NoError
         THEN MergeState("throw", q, seen, fetched, dups, 0)
         ELSE MergeInner(active, q, seen, fetched, dups)
    ELSE MergeState("complete", q, seen, fetched, dups, 0)

\* MergeLoop whose outer while has no exit: it waits when nothing is left
MergeLoopNoExit(active, err, q, seen, fetched, dups) ==
    IF active > 0 \/ Len(q) > 0
    THEN IF err # NoError
         THEN MergeState("throw", q, seen, fetched, dups, 0)
         ELSE MergeInner(active, q, seen, fetched, dups)
    ELSE MergeState("wait", q, seen, fetched, dups, 0)

\* the merge loop from the test of its outer while on
MergeLoop(active, err, q, seen, fetched, dups) ==
    IF active > 0 \/ Len(q) > 0
    THEN IF err # NoError
         THEN MergeState("throw", q, seen, fetched, dups, 0)
         ELSE MergeInner(active, q, seen, fetched, dups)
    ELSE MergeState("complete", q, seen, fetched, dups, 0)

\* the generator, having run as m says, suspends or ends; evs: events so far
Suspend(m, chs, evs) ==
    /\ queue' = m.queue
    /\ seenIds' = m.seenIds
    /\ totalEntriesFetched' = m.totalEntriesFetched
    /\ totalDuplicates' = m.totalDuplicates
    /\ cpc' = CASE m.out = "yield" -> "yield"
                [] m.out = "wait" -> "wait"
                [] m.out = "throw" -> "failed"
                [] OTHER -> "done"
    /\ yielded' = IF m.out = "yield" THEN Append(yielded, m.entry._id) ELSE yielded
    /\ yieldedFrom' = IF m.out = "yield"
                      THEN Append(yieldedFrom, <<m.entry.chunk, m.entry.rank>>)
                      ELSE yieldedFrom
    /\ raised' = IF m.out = "throw" THEN hasError ELSE raised
    /\ events' = IF m.out = "complete"
                 THEN Append(evs, CompleteEvent(TotalChunks(chs),
                                                Cardinality(m.seenIds),
                                                m.totalDuplicates))
                 ELSE evs

\* the chunk_start events of the workers, launched in index order
RECURSIVE ChunkStartEvents(_, _)
ChunkStartEvents(chs, i) ==
    IF i > Len(chs) THEN <<>>
    ELSE <<ChunkStartEvent(chs, i)>> \o ChunkStartEvents(chs, i + 1)

\* 'start', the workers' synchronous starts, then the merge loop's first run
Launch(chs) ==
    /\ chunks' = chs
    /\ worker' = [i \in 1..Len(chs) |-> LaunchedWorker(chs, i)]
    /\ activeChunks' = Len(chs)
    /\ Suspend(MergeLoop(Len(chs), NoError, <<>>, {}, 0, 0), chs,
               <<StartEvent(chs)>> \o ChunkStartEvents(chs, 1))
    /\ UNCHANGED <<completedChunks, hasError>>

\* the caller's first pull: the generator's body starts
PullFirst ==
    /\ engine # "none"
    /\ cpc = "idle"
    /\ IF engine = "approvals"
       THEN /\ cpc' = "probe"
            /\ UNCHANGED <<totalCount, chunks, seenIds, completedChunks,
                           totalEntriesFetched, totalDuplicates, queue, activeChunks,
                           hasError, worker, obsVars>>
       ELSE /\ Launch(TimeChunks(parallelChunks, after, before))
            /\ UNCHANGED totalCount
    /\ UNCHANGED <<seqVars, optVars, envVars>>

\* ProbeResponse that reads a non-ok answer as a listing of no records
ProbeResponseLenient(status) ==
    /\ cpc = "probe"
    /\ LET total == IF status = OkStatus THEN dataset.count ELSE 0
           recordsToFetch == RecordsToFetch(total, max, offset)
       IN  /\ totalCount' = total
           /\ IF recordsToFetch <= 0
              THEN /\ events' = Append(events, CompleteEvent(0, 0, 0))
                   /\ cpc' = "done"
                   /\ UNCHANGED <<chunks, seenIds, completedChunks,
                                  totalEntriesFetched, totalDuplicates, queue,
                                  activeChunks, hasError, worker, yielded, yieldedFrom, raised>>
              ELSE Launch(OffsetChunks(parallelChunks, offset, recordsToFetch))
    /\ UNCHANGED <<seqVars, optVars, envVars>>

\* the count probe of getAllApprovalRequestsParallel is answered
ProbeResponse(status) ==
    /\ cpc = "probe"
    /\ \/ /\ status = OkStatus
          /\ LET total == dataset.count
                 recordsToFetch == RecordsToFetch(total, max, offset)
             IN  /\ totalCount' = total
                 /\ IF recordsToFetch <= 0
                    THEN /\ events' = Append(events, CompleteEvent(0, 0, 0))
                         /\ cpc' = "done"
                         /\ UNCHANGED <<chunks, seenIds, completedChunks,
                                        totalEntriesFetched, totalDuplicates, queue,
                                        activeChunks, hasError, worker, yielded, yieldedFrom, raised>>
                    ELSE Launch(OffsetChunks(parallelChunks, offset, recordsToFetch))
       \/ /\ status \in NonOkStatuses
          /\ cpc' = "failed"
          /\ raised' = [status |-> status, chunk |-> -1]
          /\ UNCHANGED <<totalCount, chunks, seenIds, completedChunks,
                         totalEntriesFetched, totalDuplicates, queue, activeChunks,
                         hasError, worker, yielded, yieldedFrom, events>>
    /\ UNCHANGED <<seqVars, optVars, envVars>>

\* the caller pulls the next record: the generator resumes after its yield
Pull ==
    /\ cpc = "yield"
    /\ Suspend(MergeInner(activeChunks, queue, seenIds, totalEntriesFetched,
                          totalDuplicates), chunks, events)
    /\ UNCHANGED <<seqVars, optVars, envVars, totalCount, chunks, completedChunks,
                   activeChunks, hasError, worker>>

\* the 10 ms idle wait is over: the generator resumes at the outer while
TimerFires ==
    /\ cpc = "wait"
    /\ Suspend(MergeLoop(activeChunks, hasError, queue, seenIds,
                         totalEntriesFetched, totalDuplicates), chunks, events)
    /\ UNCHANGED <<seqVars, optVars, envVars, totalCount, chunks, completedChunks,
                   activeChunks, hasError, worker>>

(***************************************************************************)
(* The sequential fetchers: getAllAuditLogEntries, getAllApprovalRequests  *)
(* and getAllFlagStatuses.  A URL is represented by its offset and limit.  *)
(***************************************************************************)
NoUrl == [offset |-> -1, limit |-> -1]
NoPage == [items |-> <<>>, length |-> 0, totalCount |-> 0, next |-> NoUrl]

\* the status standing for fetch() rejecting with a TypeError
NetworkError == 0
RateLimited == 429
\* the answers a request of a sequential fetcher can get
SeqStatuses == {OkStatus, RateLimited, 500, 503, 400, 401, 404, NetworkError}

\* no sequential fetcher has been called
SeqIdle ==
    /\ spc = "idle"
    /\ nextUrl = NoUrl
    /\ yieldedCount = 0
    /\ page = NoPage
    /\ waitMs = 0
    /\ fetchLog = <<>>

\* the URL of the first request
InitialUrl(f, mx, off) ==
    IF f = "approvals"
    THEN [offset |-> off,
          limit |-> IF mx # Unset THEN Min(mx, maxRecordsPerRequest) ELSE defaultLimit]
    ELSE IF f = "auditlog" THEN [offset |-> 0, limit |-> auditLimit]
    ELSE [offset |-> 0, limit |-> FlagStatusPageSize]

\* the body of a 200 answer to url; the audit log and flag status endpoints
\* link to the next page in _links.next
SeqPage(f, ds, url) ==
    LET items == ApprovalsPage(ds, url.offset, url.limit)
        nextOffset == url.offset + Len(items)
    IN  [items |-> items, length |-> Len(items), totalCount |-> ds.count,
         next |-> IF f # "approvals" /\ Len(items) > 0 /\ nextOffset < ds.count
                  THEN [offset |-> nextOffset, limit |-> url.limit]
                  ELSE NoUrl]

\* RateLimitWait with Math.max in place of Math.min
RateLimitWaitAtLeast(resetTime, t) ==
    Max((resetTime * msPerSecond) - t, rateLimitCapMs)

\* waitMs of the 429 branch: resetTime in epoch seconds, t = Date.now()
RateLimitWait(resetTime, t) ==
    Min((resetTime * msPerSecond) - t, rateLimitCapMs)

\* Retried for server errors only: a 429 left by the rate-limit branch is fatal
RetriedServerOnly(status) == status >= 500

\* Retried with every 4xx answer retried as well
RetriedAnyError(status) == status >= 400

\* the condition under which a non-ok answer is retried after retryDelayMs
Retried(status) == status >= 500 \/ status = RateLimited

\* ApprovalsNextUrl with the limit of the request kept whatever max leaves
ApprovalsNextUrlSameLimit(url, pg, yc, mx) ==
    IF pg.length > 0 /\ pg.totalCount # 0
    THEN LET newOffset == url.offset + pg.length
             hasMore == newOffset < pg.totalCount
             needsMore == mx = Unset \/ yc < mx
         IN  IF hasMore /\ needsMore
             THEN [offset |-> newOffset, limit |-> url.limit]
             ELSE NoUrl
    ELSE NoUrl

\* nextUrl of getAllApprovalRequests after the page pg of url was yielded
ApprovalsNextUrl(url, pg, yc, mx) ==
    IF pg.length > 0 /\ pg.totalCount # 0
    THEN LET newOffset == url.offset + pg.length
             hasMore == newOffset < pg.totalCount
             needsMore == mx = Unset \/ yc < mx
         IN  IF hasMore /\ needsMore
             THEN [offset |-> newOffset,
                   limit |-> IF mx # Unset
                             THEN Min(mx - yc, maxRecordsPerRequest)
                             ELSE url.limit]
             ELSE NoUrl
    ELSE NoUrl

\* nextUrl after the page: computed from the offsets, or the link of the page
FollowingUrl(f, url, pg, yc, mx) ==
    IF f = "approvals" THEN ApprovalsNextUrl(url, pg, yc, mx) ELSE pg.next

\* the variables no sequential fetcher touches
parallelVars == <<optVars, dataset, auditlog, inclusive, drift, coordVars, worker,
                  yieldedFrom, events>>

\* the first next() of the caller: the generator runs up to its first fetch
SeqPullFirst ==
    /\ fetcher # "none"
    /\ spc = "idle"
    /\ nextUrl' = InitialUrl(fetcher, max, offset)
    /\ spc' = "fetch"
    /\ UNCHANGED <<fetcher, yieldedCount, page, now, waitMs, fetchLog, faults,
                   yielded, raised, parallelVars>>

\* for (const entry of data.items) with pg.items left to yield and yc yielded:
\* yield the next one, or compute nextUrl and go round the while loop
YieldLoop(pg, yc) ==
    /\ yieldedCount' = yc
    /\ IF pg.items # <<>>
       THEN /\ yielded' = Append(yielded, Head(pg.items))
            /\ page' = [pg EXCEPT !.items = Tail(pg.items)]
            /\ spc' = "yield"
            /\ UNCHANGED nextUrl
       ELSE /\ nextUrl' = FollowingUrl(fetcher, nextUrl, pg, yc, max)
            /\ spc' = IF nextUrl' = NoUrl THEN "done" ELSE "fetch"
            /\ page' = NoPage
            /\ UNCHANGED yielded

\* SleepThenRetry with the cursor moved past the page whose request failed
SleepThenSkip(ms) ==
    /\ faults < MaxSeqFaults
    /\ faults' = faults + 1
    /\ spc' = "sleep"
    /\ waitMs' = ms
    /\ nextUrl' = [nextUrl EXCEPT !.offset = @ + nextUrl.limit]
    /\ UNCHANGED <<yieldedCount, page, yielded, raised>>

\* SleepThenRetry that gives up and raises once a request was retried before
SleepThenGiveUp(ms) ==
    /\ faults < MaxSeqFaults
    /\ faults' = faults + 1
    /\ IF faults >= 1
       THEN /\ spc' = "failed"
            /\ raised' = [status |-> RateLimited, chunk |-> -1]
            /\ UNCHANGED waitMs
       ELSE /\ spc' = "sleep"
            /\ waitMs' = ms
            /\ UNCHANGED raised
    /\ UNCHANGED <<nextUrl, yieldedCount, page, yielded>>

\* await new Promise((resolve) => setTimeout(resolve, ms)); continue
SleepThenRetry(ms) ==
    /\ faults < MaxSeqFaults
    /\ faults' = faults + 1
    /\ spc' = "sleep"
    /\ waitMs' = ms
    /\ UNCHANGED <<nextUrl, yieldedCount, page, yielded, raised>>

\* fetch(url) is answered with status and the X-RateLimit-Reset header reset
\* (<<>> when absent), Date.now() being now + LatencyMs when it is read
SeqResponse(status, reset) ==
    /\ spc = "fetch"
    /\ now' = now + LatencyMs
    /\ fetchLog' = Append(fetchLog, [url |-> nextUrl, at |-> now, status |-> status,
                                     reset |-> reset, answeredAt |-> now'])
    /\ IF status = NetworkError
       THEN SleepThenRetry(retryDelayMs)
       ELSE IF status = RateLimited /\ reset # <<>>
       THEN SleepThenRetry(RateLimitWait(reset[1], now'))
       ELSE IF status # OkStatus
       THEN IF Retried(status)
            THEN SleepThenRetry(retryDelayMs)
            ELSE /\ spc' = "failed"
                 /\ raised' = [status |-> status, chunk |-> -1]
                 /\ UNCHANGED <<nextUrl, yieldedCount, page, yielded, waitMs, faults>>
       ELSE /\ YieldLoop(SeqPage(fetcher, dataset, nextUrl), yieldedCount)
            /\ UNCHANGED <<raised, waitMs, faults>>
    /\ UNCHANGED <<fetcher, parallelVars>>

\* fetch(url) of getAllApprovalRequests is answered 200 with a body that has
\* its items but no totalCount (0 stands for the absent, falsy value)
SeqResponseNoTotal ==
    /\ spc = "fetch"
    /\ fetcher = "approvals"
    /\ now' = now + LatencyMs
    /\ fetchLog' = Append(fetchLog, [url |-> nextUrl, at |-> now, status |-> OkStatus,
                                     reset |-> <<>>, answeredAt |-> now'])
    /\ YieldLoop([SeqPage(fetcher, dataset, nextUrl) EXCEPT !.totalCount = 0],
                 yieldedCount)
    /\ UNCHANGED <<raised, waitMs, faults, fetcher, parallelVars>>

\* the timer of the sleep fires (a delay below 0 fires at once) and the while
\* loop requests nextUrl again
SeqTimer ==
    /\ spc = "sleep"
    /\ now' = now + Max(waitMs, 0)
    /\ spc' = "fetch"
    /\ UNCHANGED <<fetcher, nextUrl, yieldedCount, page, waitMs, fetchLog, faults,
                   yielded, raised, parallelVars>>

\* next() of the caller after a yield
SeqPull ==
    /\ spc = "yield"
    /\ IF fetcher = "approvals"
       THEN IF max # Unset /\ yieldedCount + 1 >= max
            THEN /\ yieldedCount' = yieldedCount + 1
                 /\ spc' = "done"
                 /\ UNCHANGED <<nextUrl, page, yielded>>
            ELSE YieldLoop(page, yieldedCount + 1)
       ELSE YieldLoop(page, yieldedCount)
    /\ UNCHANGED <<fetcher, now, waitMs, fetchLog, faults, raised, parallelVars>>

(***************************************************************************)
(* The parallel engines                                                    *)
(***************************************************************************)
\* the state before the call: no chunk, no worker, nothing observed
Idle ==
    /\ cpc = "idle"
    /\ chunks = <<>>
    /\ seenIds = {}
    /\ completedChunks = 0
    /\ totalEntriesFetched = 0
    /\ totalDuplicates = 0
    /\ queue = <<>>
    /\ activeChunks = 0
    /\ hasError = NoError
    /\ worker = <<>>
    /\ yielded = <<>>
    /\ yieldedFrom = <<>>
    /\ raised = NoError
    /\ events = <<>>
    /\ faults = 0
    /\ drift = 0

\* the dataset sizes the approvals engine is run on
EngineTotals == {0, 1, MaxTotalCount}
\* the <<max, offset>> options the approvals engine is run with
ApprovalOptions == {<<Unset, Unset>>, <<2, 1>>}

\* audit logs of two entries dated in 0..MaxAuditTime, newest first
AuditLogs ==
    {<<[_id |-> 1, date |-> d1], [_id |-> 2, date |-> d2]>> :
        d1 \in 0..MaxAuditTime, d2 \in 0..MaxAuditTime} 

Init ==
    /\ Idle
    /\ keepFetched = FALSE
    /\ SeqIdle
    /\ now = 0
    /\ fetcher = "none"
    /\ engine \in {"approvals", "audit"}
    /\ parallelChunks \in 1..(IF engine = "approvals" THEN MaxParallelChunks
                                                      ELSE MaxAuditChunks)
    /\ totalCount = 0
    /\ IF engine = "approvals"
       THEN /\ \E o \in ApprovalOptions : max = o[1] /\ offset = o[2]
            /\ \E n \in EngineTotals : dataset = [first |-> 0, count |-> n]
            /\ after = 0 /\ before = 0
            /\ auditlog = <<>>
            /\ inclusive = TRUE
       ELSE /\ max = Unset /\ offset = Unset
            /\ dataset = [first |-> 0, count |-> 0]
            /\ after = 0
            /\ before \in {after, MaxAuditTime}
            /\ auditlog \in {l \in AuditLogs : l[1].date >= l[2].date}
            /\ inclusive \in BOOLEAN

Next ==
    \/ PullFirst
    \/ \E status \in {OkStatus} \cup NonOkStatuses : ProbeResponse(status)
    \/ Pull
    \/ TimerFires
    \/ \E i \in DOMAIN worker, status \in {OkStatus} \cup NonOkStatuses :
          ApprovalsWorkerResponse(i, status)
    \/ \E i \in DOMAIN worker, status \in {OkStatus} \cup NonOkStatuses :
          AuditWorkerResponse(i, status)
    \/ \E i \in DOMAIN worker : AuditWorkerRetry(i)
    \/ \E i \in DOMAIN worker : AuditWorkerPush(i)
    \/ Drift

Spec == Init /\ [][Next]_vars

\* the steps of the caller, who pulls the next record whenever one was yielded
CallerPulls == PullFirst \/ Pull

\* the steps of the endpoint and of the workers' continuations
WorkersRun ==
    \/ \E status \in {OkStatus} \cup NonOkStatuses : ProbeResponse(status)
    \/ \E i \in DOMAIN worker, status \in {OkStatus} \cup NonOkStatuses :
          ApprovalsWorkerResponse(i, status)
    \/ \E i \in DOMAIN worker, status \in {OkStatus} \cup NonOkStatuses :
          AuditWorkerResponse(i, status)
    \/ \E i \in DOMAIN worker : AuditWorkerRetry(i)
    \/ \E i \in DOMAIN worker : AuditWorkerPush(i)

\* the runs of the parallel engines that are followed to their end: the
\* approvals engine on a listing of one chunk, the audit engine over
\* [0, MaxFairTime] on a log of two entries
FairInit ==
    /\ Idle
    /\ keepFetched = FALSE
    /\ SeqIdle
    /\ now = 0
    /\ fetcher = "none"
    /\ engine \in {"approvals", "audit"}
    /\ parallelChunks \in 1..MaxFairChunks
    /\ totalCount = 0
    /\ max = Unset /\ offset = Unset
    /\ after = 0
    /\ IF engine = "approvals"
       THEN /\ dataset \in [first : {0}, count : 0..MaxLoopTotal]
            /\ before = 0
            /\ auditlog = <<>>
            /\ inclusive = TRUE
       ELSE /\ dataset = [first |-> 0, count |-> 0]
            /\ before = MaxFairTime
            /\ auditlog \in {<<[_id |-> 1, date |-> d1], [_id |-> 2, date |-> d2]>> :
                                d1 \in {1}, d2 \in 0..1}
            /\ inclusive \in BOOLEAN

\* the parallel engines with a caller that keeps pulling, an endpoint that
\* answers every request and an event loop that runs every due timer and
\* every ready continuation
SpecFair ==
    /\ FairInit
    /\ [][Next]_vars
    /\ WF_vars(CallerPulls)
    /\ WF_vars(TimerFires)
    /\ WF_vars(WorkersRun)

(***************************************************************************)
(* The partitioners alone, applied to every input within the bounds        *)
(***************************************************************************)
PartitionMaxOptions ==
    {Unset, 1, maxRecordsPerRequest, (2 * maxRecordsPerRequest) + 1}

PartitionInit ==
    /\ Idle
    /\ keepFetched = FALSE
    /\ SeqIdle
    /\ now = 0
    /\ fetcher = "none"
    /\ engine \in {"approvals", "audit"}
    /\ parallelChunks \in 1..MaxPartitionChunks
    /\ auditlog = <<>>
    /\ inclusive = TRUE
    /\ IF engine = "approvals"
       THEN /\ totalCount \in 0..MaxPartitionTotal
            /\ max \in PartitionMaxOptions
            /\ offset \in 0..MaxOffset
            /\ dataset = [first |-> 0, count |-> totalCount]
            /\ after = 0 /\ before = 0
       ELSE /\ totalCount = 0
            /\ max = Unset /\ offset = Unset
            /\ dataset = [first |-> 0, count |-> 0]
            /\ after \in 0..MaxTime
            /\ before \in 0..MaxTime

\* the chunks the engine computes before it launches its workers
Partition ==
    /\ cpc = "idle"
    /\ cpc' = "partitioned"
    /\ chunks' = IF engine = "approvals"
                 THEN LET recordsToFetch == RecordsToFetch(totalCount, max, offset)
                      IN  IF recordsToFetch <= 0 THEN <<>>
                          ELSE OffsetChunks(parallelChunks, offset, recordsToFetch)
                 ELSE TimeChunks(parallelChunks, after, before)
    /\ UNCHANGED <<seqVars, optVars, envVars, totalCount, seenIds, completedChunks,
                   totalEntriesFetched, totalDuplicates, queue, activeChunks,
                   hasError, worker, obsVars>>

PartitionNext == Partition

SpecPartition == PartitionInit /\ [][PartitionNext]_vars

(***************************************************************************)
(* A sequential fetcher, its endpoint and its clock                        *)
(***************************************************************************)
\* the <<max, offset>> options getAllApprovalRequests is run with
SeqApprovalOptions == {<<Unset, Unset>>, <<2, 1>>}
\* the clock at the call: on a second less the latency, and off it
StartTimes == {0, msPerSecond - LatencyMs}
\* the values of X-RateLimit-Reset a 429 read at time t can carry
ResetHeaders(t) == {<<(t \div msPerSecond) + k>> : k \in 0..MaxResetAhead}

SeqInit ==
    /\ Idle
    /\ keepFetched = FALSE
    /\ SeqIdle
    /\ now \in StartTimes
    /\ fetcher \in {"auditlog", "approvals", "flagstatuses"}
    /\ engine = "none"
    /\ parallelChunks = 1
    /\ totalCount = 0
    /\ after = 0 /\ before = 0
    /\ auditlog = <<>>
    /\ inclusive = TRUE
    /\ IF fetcher = "approvals"
       THEN \E o \in SeqApprovalOptions : max = o[1] /\ offset = o[2]
       ELSE max = Unset /\ offset = Unset
    /\ \E n \in (IF fetcher = "flagstatuses" THEN {0, FlagStatusPageSize + 1}
                                             ELSE {0, 1, MaxSeqTotal}) :
          dataset = [first |-> 0, count |-> n]

SeqNext ==
    \/ SeqPullFirst
    \/ \E status \in SeqStatuses :
          \E reset \in (IF status = RateLimited
                        THEN {<<>>} \cup ResetHeaders(now + LatencyMs)
                        ELSE {<<>>}) :
             SeqResponse(status, reset)
    \/ SeqTimer
    \/ SeqPull

SpecSeq == SeqInit /\ [][SeqNext]_vars

(***************************************************************************)
(* Scenario A: getAllApprovalRequestsParallel on a static fixture, every   *)
(* request answered 200                                                    *)
(***************************************************************************)
ScenarioAInit ==
    /\ Idle
    /\ keepFetched = FALSE
    /\ SeqIdle
    /\ now = 0
    /\ fetcher = "none"
    /\ engine = "approvals"
    /\ parallelChunks = ScenarioChunks
    /\ totalCount = 0
    /\ max = Unset /\ offset = Unset
    /\ dataset = [first |-> 1, count |-> ScenarioRecords]
    /\ after = 0 /\ before = 0
    /\ auditlog = <<>>
    /\ inclusive = TRUE

ScenarioANext ==
    \/ PullFirst
    \/ ProbeResponse(OkStatus)
    \/ Pull
    \/ TimerFires
    \/ \E i \in DOMAIN worker : ApprovalsWorkerResponse(i, OkStatus)

SpecScenarioA == ScenarioAInit /\ [][ScenarioANext]_vars

(***************************************************************************)
(* getAllApprovalRequests and getAllApprovalRequestsParallel called with   *)
(* max and offset on a static listing, every request answered 200          *)
(***************************************************************************)
\* the <<max, offset, number of records>> of the runs
MaxOffsetCases ==
    {<<25, 100, 500>>, <<201, 1, 205>>, <<200, 2, 500>>, <<2, 1, 21>>,
     <<25, 1, 21>>, <<1, 0, 1>>}

MaxOffsetInit ==
    /\ Idle
    /\ keepFetched = FALSE
    /\ SeqIdle
    /\ now = 0
    /\ totalCount = 0
    /\ after = 0 /\ before = 0
    /\ auditlog = <<>>
    /\ inclusive = TRUE
    /\ \E c \in MaxOffsetCases :
          /\ max = c[1]
          /\ offset = c[2]
          /\ dataset = [first |-> 1, count |-> c[3]]
    /\ \/ /\ engine = "approvals"
          /\ fetcher = "none"
          /\ parallelChunks \in 1..MaxParallelChunks
       \/ /\ engine = "none"
          /\ fetcher = "approvals"
          /\ parallelChunks = 1

MaxOffsetNext ==
    \/ PullFirst
    \/ ProbeResponse(OkStatus)
    \/ Pull
    \/ TimerFires
    \/ \E i \in DOMAIN worker : ApprovalsWorkerResponse(i, OkStatus)
    \/ SeqPullFirst
    \/ SeqResponse(OkStatus, <<>>)
    \/ SeqPull

SpecMaxOffset == MaxOffsetInit /\ [][MaxOffsetNext]_vars

(***************************************************************************)
(* The page loop of the workers of getAllApprovalRequestsParallel against  *)
(* an endpoint that answers every request 200, on a listing that loses     *)
(* records after the count probe and with pages shorter than the limit     *)
(***************************************************************************)
WorkerLoopInit ==
    /\ Idle
    /\ keepFetched = FALSE
    /\ SeqIdle
    /\ now = 0
    /\ fetcher = "none"
    /\ engine = "approvals"
    /\ parallelChunks \in 1..2
    /\ totalCount = 0
    /\ max = Unset /\ offset = Unset
    /\ dataset \in [first : {1}, count : 1..MaxLoopTotal]
    /\ after = 0 /\ before = 0
    /\ auditlog = <<>>
    /\ inclusive = TRUE

WorkerLoopNext ==
    \/ PullFirst
    \/ ProbeResponse(OkStatus)
    \/ Pull
    \/ TimerFires
    \/ Shrink
    \/ \E i \in DOMAIN worker : ApprovalsWorkerResponse(i, OkStatus)
    \/ \E i \in DOMAIN worker : \E n \in 0..MaxLoopTotal : ApprovalsWorkerShortPage(i, n)

SpecWorkerLoop == WorkerLoopInit /\ [][WorkerLoopNext]_vars

(***************************************************************************)
(* The parallel engines on listings long enough for the workers to report  *)
(* their progress twice, every request answered 200                        *)
(***************************************************************************)
ReportInit ==
    /\ Idle
    /\ keepFetched = FALSE
    /\ SeqIdle
    /\ now = 0
    /\ fetcher = "none"
    /\ engine \in {"approvals", "audit"}
    /\ parallelChunks \in 1..2
    /\ totalCount = 0
    /\ max = Unset /\ offset = Unset
    /\ after = 0
    /\ inclusive = TRUE
    /\ IF engine = "approvals"
       THEN /\ dataset = [first |-> 0, count |-> MaxTotalCount]
            /\ before = 0
            /\ auditlog = <<>>
       ELSE /\ dataset = [first |-> 0, count |-> 0]
            /\ before = MaxAuditTime
            /\ auditlog = [k \in 1..MaxReportEntries |-> [_id |-> k, date |-> 0]]

ReportNext ==
    \/ PullFirst
    \/ ProbeResponse(OkStatus)
    \/ Pull
    \/ TimerFires
    \/ \E i \in DOMAIN worker : ApprovalsWorkerResponse(i, OkStatus)
    \/ \E i \in DOMAIN worker : AuditWorkerResponse(i, OkStatus)
    \/ \E i \in DOMAIN worker : AuditWorkerPush(i)

SpecReport == ReportInit /\ [][ReportNext]_vars

(***************************************************************************)
(* The parallel engines with every field of the progress events observed   *)
(***************************************************************************)
ProgressInit ==
    /\ Idle
    /\ keepFetched = TRUE
    /\ SeqIdle
    /\ now = 0
    /\ fetcher = "none"
    /\ engine \in {"approvals", "audit"}
    /\ parallelChunks \in 1..MaxParallelChunks
    /\ totalCount = 0
    /\ max = Unset /\ offset = Unset
    /\ after = 0
    /\ inclusive = TRUE
    /\ IF engine = "approvals"
       THEN /\ dataset \in [first : {0}, count : {0, MaxTotalCount}]
            /\ before = 0
            /\ auditlog = <<>>
       ELSE /\ dataset = [first |-> 0, count |-> 0]
            /\ before = MaxAuditTime
            /\ auditlog = <<[_id |-> 1, date |-> 1], [_id |-> 2, date |-> 0]>>

ProgressNext ==
    \/ PullFirst
    \/ ProbeResponse(OkStatus)
    \/ Pull
    \/ TimerFires
    \/ \E i \in DOMAIN worker, status \in {OkStatus} \cup NonOkStatuses :
          ApprovalsWorkerResponse(i, status)
    \/ \E i \in DOMAIN worker, status \in {OkStatus} \cup NonOkStatuses :
          AuditWorkerResponse(i, status)
    \/ \E i \in DOMAIN worker : AuditWorkerRetry(i)
    \/ \E i \in DOMAIN worker : AuditWorkerPush(i)

SpecProgress == ProgressInit /\ [][ProgressNext]_vars

(***************************************************************************)
(* getAllApprovalRequests alone, on static listings, every request         *)
(* answered 200, with or without totalCount in the body                    *)
(***************************************************************************)
\* the <<max, offset, number of records>> of the runs
SeqApprovalCases ==
    {<<Unset, Unset, MaxSeqTotal>>, <<Unset, Unset, (2 * defaultLimit) + 1>>,
     <<Unset, 2, 1>>, <<2, 1, MaxSeqTotal>>,
     <<MaxSeqTotal + 4, 1, MaxSeqTotal>>,
     <<maxRecordsPerRequest + 1, 1, maxRecordsPerRequest + 5>>,
     <<2 * maxRecordsPerRequest, Unset, maxRecordsPerRequest + 5>>}

SeqApprovalsInit ==
    /\ Idle
    /\ keepFetched = FALSE
    /\ SeqIdle
    /\ now = 0
    /\ fetcher = "approvals"
    /\ engine = "none"
    /\ parallelChunks = 1
    /\ totalCount = 0
    /\ after = 0 /\ before = 0
    /\ auditlog = <<>>
    /\ inclusive = TRUE
    /\ \E c \in SeqApprovalCases :
          /\ max = c[1]
          /\ offset = c[2]
          /\ dataset = [first |-> 0, count |-> c[3]]

SeqApprovalsNext ==
    \/ SeqPullFirst
    \/ SeqResponse(OkStatus, <<>>)
    \/ SeqResponseNoTotal
    \/ SeqPull

SpecSeqApprovals == SeqApprovalsInit /\ [][SeqApprovalsNext]_vars

(***************************************************************************)
(* Properties                                                              *)
(***************************************************************************)
RECURSIVE SumOfTargets(_)
SumOfTargets(chs) ==
    IF chs = <<>> THEN 0
    ELSE (Head(chs).endOffset - Head(chs).startOffset) + SumOfTargets(Tail(chs))

\* C9: for every P >= 1, starting offset o and recordsToFetch R > 0 the offset
\* chunks are non-empty, ascending and contiguous, the first starts at o, the
\* last ends at o + R (so they are pairwise disjoint with union [o, o + R)) and
\* their target counts sum to R.
C9_OffsetPartition ==
    LET R == RecordsToFetch(totalCount, max, offset)
        n == Len(chunks)
    IN  (cpc = "partitioned" /\ engine = "approvals" /\ R > 0) =>
           /\ n >= 1
           /\ chunks[1].startOffset = offset
           /\ chunks[n].endOffset = offset + R
           /\ \A i \in 1..n : chunks[i].startOffset < chunks[i].endOffset
           /\ \A i \in 1..(n - 1) : chunks[i].endOffset = chunks[i + 1].startOffset
           /\ SumOfTargets(chunks) = R

\* C9 witness: a domain starting at a non-zero offset is cut into four chunks,
\* the last one shorter than the others
C9_Witness ==
    /\ cpc = "partitioned"
    /\ engine = "approvals"
    /\ offset > 0
    /\ Len(chunks) = 4
    /\ chunks[4].endOffset - chunks[4].startOffset
          < chunks[1].endOffset - chunks[1].startOffset

\* C10: for every P >= 1 and after <= before each time chunk has
\* chunk.after <= chunk.before and lies inside [after, before], consecutive
\* chunks meet at their boundary and the chunks cover [after, before].
C10_TimePartition ==
    LET n == Len(chunks)
    IN  (cpc = "partitioned" /\ engine = "audit" /\ after <= before) =>
           /\ n >= 1
           /\ chunks[1].after = after
           /\ chunks[n].before = before
           /\ \A i \in 1..n : /\ chunks[i].after <= chunks[i].before
                              /\ after <= chunks[i].after
                              /\ chunks[i].before <= before
           /\ \A i \in 1..(n - 1) : chunks[i].before = chunks[i + 1].after

\* the entries of seq that are not in set, in order
RECURSIVE NotIn(_, _)
NotIn(seq, set) ==
    IF seq = <<>> THEN <<>>
    ELSE (IF Head(seq) \in set THEN <<>> ELSE <<Head(seq)>>) \o NotIn(Tail(seq), set)

NoWorkerFailed == \A i \in DOMAIN worker : worker[i].pc # "failed"

\* C1: against a static approvals dataset of N records with distinct _id, with
\* no max, offset 0 and every request answered 2xx, a run to exhaustion with
\* any parallelChunks yields exactly N records, every identifier exactly once.
C1_AllRecordsOnce ==
    (/\ engine = "approvals"
     /\ cpc = "done"
     /\ drift = 0
     /\ max = Unset /\ offset = Unset
     /\ NoWorkerFailed) =>
        /\ Len(yielded) = dataset.count
        /\ \A id \in dataset.first..(dataset.first + dataset.count - 1) :
              Cardinality({j \in 1..Len(yielded) : yielded[j] = id}) = 1

\* C1 witness: two workers have delivered the whole static dataset
C1_Witness ==
    /\ engine = "approvals"
    /\ cpc = "done"
    /\ drift = 0
    /\ max = Unset /\ offset = Unset
    /\ NoWorkerFailed
    /\ Len(chunks) = 2
    /\ Len(yielded) = MaxTotalCount

\* C2: in both parallel engines no _id is ever yielded twice, whatever the
\* interleaving of pushes and drains; in every run of the merge loop a record
\* shifted from the queue whose _id is in seenIds is dropped and counted in
\* totalDuplicates, and any other is yielded.
C2_NoDuplicateYield ==
    [][/\ Cardinality({yielded'[j] : j \in 1..Len(yielded')}) = Len(yielded')
       /\ (worker' = worker /\ cpc \in {"yield", "wait"}) =>
             LET shifted == [k \in 1..(Len(queue) - Len(queue')) |-> queue[k]._id]
                 fresh == NotIn(shifted, seenIds)
             IN  /\ yielded' = yielded \o fresh
                 /\ totalDuplicates' = totalDuplicates + (Len(shifted) - Len(fresh))
                 /\ \A j \in 1..Len(fresh) : fresh[j] \in seenIds']_vars

\* C2 witness: two audit workers pushed the entry on their common boundary, the
\* second copy was dropped
C2_Witness ==
    /\ engine = "audit"
    /\ cpc = "done"
    /\ totalDuplicates > 0
    /\ Len(yielded) = 2

\* C3 (as claimed): once a worker has recorded an error the stream does not end
\* normally: it ends by raising that error.
C3_ErrorIsRaised ==
    /\ cpc = "done" => hasError = NoError
    /\ (cpc = "failed" /\ raised.chunk # -1) =>
          \E i \in DOMAIN worker : worker[i].pc = "failed" /\ raised.chunk = i - 1

\* C4 (as claimed): 'complete' is emitted only when all workers have terminated,
\* the queue is empty and no worker recorded an error.
C4_CompleteOnlyWithoutError ==
    (\E k \in 1..Len(events) : events[k].type = "complete") =>
        /\ activeChunks = 0
        /\ queue = <<>>
        /\ hasError = NoError
        /\ \A i \in DOMAIN worker : worker[i].pc = "done"

\* C5 (as claimed): a page request answered 500 is retried until it succeeds,
\* in the workers of both parallel engines too: no 500 ends a worker or is
\* recorded as its error.
C5_TransientRecovery ==
    /\ hasError.status # 500
    /\ \A i \in DOMAIN worker : worker[i].pc = "failed" => hasError.status # 500


\* whether request j was answered 429 with an X-RateLimit-Reset header
RateLimitedWithReset(j) ==
    fetchLog[j].status = RateLimited /\ fetchLog[j].reset # <<>>

\* ms from Date.now() after the answer to request j until the announced reset
MsUntilReset(j) == (fetchLog[j].reset[1] * msPerSecond) - fetchLog[j].answeredAt

\* C6: after a 429 carrying X-RateLimit-Reset = r, a sequential fetcher passes
\* min(r * 1000 - now, 1000) to its timer and requests the same URL when it has
\* fired: the wait is at most 1000 ms, it is 1000 ms when the reset is 1 s or
\* more (so also 2 s) ahead, and a request answered 200 right after a 429 ends
\* the retrying: the page is consumed and nothing is raised for it.
C6_RateLimitWait ==
    /\ \A j \in DOMAIN fetchLog :
          RateLimitedWithReset(j) /\ j = Len(fetchLog) /\ spc = "sleep" =>
             /\ waitMs = Min(MsUntilReset(j), 1000)
             /\ nextUrl = fetchLog[j].url
    /\ \A j \in DOMAIN fetchLog :
          RateLimitedWithReset(j) /\ j < Len(fetchLog) =>
             LET slept == fetchLog[j + 1].at - fetchLog[j].answeredAt
             IN  /\ fetchLog[j + 1].url = fetchLog[j].url
                 /\ slept = Max(0, Min(MsUntilReset(j), 1000))
                 /\ slept <= 1000
                 /\ (MsUntilReset(j) >= 1000 => slept = 1000)
                 /\ (fetchLog[j + 1].status = OkStatus /\ j + 1 = Len(fetchLog) =>
                        /\ spc \in {"yield", "fetch", "done"}
                        /\ raised = NoError)

\* a 429 announcing a reset exactly 2 s ahead was followed, 1000 ms later, by a
\* request that succeeded, and the fetcher has yielded the whole listing
C6_Witness ==
    /\ spc = "done"
    /\ dataset.count > 0
    /\ Len(yielded) = dataset.count
    /\ \E j \in DOMAIN fetchLog :
          /\ RateLimitedWithReset(j)
          /\ MsUntilReset(j) = 2000
          /\ j < Len(fetchLog)
          /\ fetchLog[j + 1].status = OkStatus
          /\ fetchLog[j + 1].at = fetchLog[j].answeredAt + 1000

\* C7: after a 429 whose X-RateLimit-Reset announces the time T, no later
\* request for that URL is issued before T.
C7_NoRequestBeforeReset ==
    \A j \in DOMAIN fetchLog, k \in DOMAIN fetchLog :
       /\ RateLimitedWithReset(j)
       /\ j < k
       /\ fetchLog[k].url = fetchLog[j].url
       => fetchLog[k].at >= fetchLog[j].reset[1] * msPerSecond

\* whether status is a non-2xx answer other than 429 and 5xx
FatalStatus(status) ==
    /\ status # NetworkError
    /\ status # RateLimited
    /\ (status < 200 \/ status >= 300)
    /\ status < 500

\* C8: a non-2xx answer other than 429 and 5xx makes a sequential fetcher raise
\* at once: in the step of the answer the generator fails with that status, no
\* sleep is started, no record is yielded and the next URL is left alone, and
\* once it has failed the fetcher takes no further step (no retry, no request).
C8_FatalRaisesImmediately ==
    [][/\ spc # "failed"
       /\ (Len(fetchLog') > Len(fetchLog)
           /\ FatalStatus(fetchLog'[Len(fetchLog')].status)) =>
              /\ spc' = "failed"
              /\ raised' = [status |-> fetchLog'[Len(fetchLog')].status, chunk |-> -1]
              /\ yielded' = yielded
              /\ now' = fetchLog'[Len(fetchLog')].answeredAt
              /\ faults' = faults]_vars

\* the request for the second page was answered 404 after the first page had
\* been yielded, and the fetcher has failed
C8_Witness ==
    /\ spc = "failed"
    /\ Len(fetchLog) >= 2
    /\ fetchLog[Len(fetchLog)].status = 404
    /\ fetchLog[Len(fetchLog)].url # fetchLog[1].url
    /\ Len(yielded) > 0

\* C11: the number of ranges, the number of workers launched and the
\* totalChunks of the 'start' event are equal and never exceed parallelChunks;
\* in getAllApprovalRequestsParallel they do not exceed
\* min(parallelChunks, ceil(recordsToFetch / 200)) either.
C11_AtMostPRanges ==
    cpc \notin {"idle", "probe"} =>
       /\ Len(chunks) <= parallelChunks
       /\ Len(worker) = Len(chunks)
       /\ (chunks # <<>> =>
              /\ events[1].type = "start"
              /\ events[1].totalChunks = Len(chunks))
       /\ (engine = "approvals" /\ chunks # <<>> =>
              Len(chunks) <= Min(parallelChunks,
                                Ceil(RecordsToFetch(totalCount, max, offset), 200)))

\* 201 records asked with parallelChunks = 3 fit in two pages: two workers run
C11_Witness ==
    /\ engine = "approvals"
    /\ parallelChunks = 3
    /\ totalCount = 201
    /\ Len(worker) = 2
    /\ events[1].totalChunks = 2
    /\ cpc = "done"

\* the set of the elements of a sequence
Range(seq) == {seq[k] : k \in DOMAIN seq}

\* whether the run has ended with 'complete' reporting unique and dups
CompletedWith(unique, dups) ==
    /\ events # <<>>
    /\ events[Len(events)].type = "complete"
    /\ events[Len(events)].uniqueEntries = unique
    /\ events[Len(events)].duplicatesRemoved = dups

MaxOffsetWindow ==
    [k \in 1..Min(max, dataset.count - offset) |-> dataset.first + offset + (k - 1)]

\* C13: with max > 0 and offset < N on a static listing of N records, both
\* getAllApprovalRequests and getAllApprovalRequestsParallel yield no record
\* outside the positions offset + 1 .. offset + min(max, N - offset) and, when
\* they return, have yielded exactly these records: the sequential fetcher in
\* the endpoint's order, the parallel engine each of them once.
C13_MaxOffsetWindow ==
    /\ Range(yielded) \subseteq Range(MaxOffsetWindow)
    /\ (fetcher = "approvals" /\ spc = "done" => yielded = MaxOffsetWindow)
    /\ (engine = "approvals" /\ cpc = "done" =>
           /\ Len(yielded) = Len(MaxOffsetWindow)
           /\ Range(yielded) = Range(MaxOffsetWindow))

\* max = 25, offset = 100 on 500 records: the parallel engine has returned
\* after yielding the 101st to the 125th record
C13_Witness ==
    /\ engine = "approvals"
    /\ cpc = "done"
    /\ max = 25 /\ offset = 100 /\ dataset.count = 500
    /\ Len(yielded) = 25
    /\ yielded[1] = 101 /\ yielded[25] = 125

\* whether the engine that runs has been given a domain of size zero
ZeroSizeDomain ==
    \/ engine = "audit" /\ after = before
    \/ engine = "approvals" /\ RecordsToFetch(totalCount, max, offset) <= 0

\* C14 (scenario C): on a zero-size domain (after = before for the time-based
\* engine, recordsToFetch <= 0 for the offset-based engine) an engine that got
\* past its count probe has no range, has launched no worker, so has issued no
\* page request, has yielded nothing and has ended with 'complete' as its only
\* event, reporting uniqueEntries = 0.
C14_ZeroSizeDomain ==
    (ZeroSizeDomain /\ cpc \notin {"idle", "probe"} /\ raised = NoError) =>
       /\ chunks = <<>>
       /\ worker = <<>>
       /\ yielded = <<>>
       /\ cpc = "done"
       /\ Len(events) = 1
       /\ CompletedWith(0, 0)

\* the number of records the workers 1..n have pushed into the queue
RECURSIVE PushedBy(_)
PushedBy(n) == IF n = 0 THEN 0 ELSE worker[n].chunkEntries + PushedBy(n - 1)

\* C15: when a parallel engine has emitted 'complete', the uniqueEntries of
\* the event is the number of records yielded to the caller and its
\* duplicatesRemoved is the number of records pushed by all workers less
\* uniqueEntries.
C15_ProgressAccounting ==
    (events # <<>> /\ events[Len(events)].type = "complete") =>
       /\ events[Len(events)].uniqueEntries = Len(yielded)
       /\ events[Len(events)].duplicatesRemoved =
             PushedBy(Len(worker)) - events[Len(events)].uniqueEntries

\* the approvals engine has completed a run in which a record created while
\* the workers fetched made one record come twice
C15_Witness ==
    /\ engine = "approvals"
    /\ drift > 0
    /\ Len(yielded) > 1
    /\ CompletedWith(Len(yielded), 1)
    /\ PushedBy(Len(worker)) = Len(yielded) + 1

\* the identifiers of the fixture that lie in the domain asked for, which do
\* not depend on parallelChunks
FixtureIds ==
    IF engine = "audit"
    THEN Range(AuditMatches(auditlog, after, before))
    ELSE {dataset.first + offset + k :
             k \in 0..(RecordsToFetch(dataset.count, max, offset) - 1)}

C17_OrderWithinChunk ==
    LET n == Len(yieldedFrom)
    IN  \A p \in 1..(n - 1) :
           yieldedFrom[p][1] = yieldedFrom[n][1] =>
              yieldedFrom[p][2] < yieldedFrom[n][2]

\* records of two workers have been yielded in one run: first those worker 2
\* pushed, then at least two of those worker 1 pushed
C17_Witness ==
    /\ Len(yieldedFrom) >= 3
    /\ yieldedFrom[1][1] = 2
    /\ yieldedFrom[Len(yieldedFrom)][1] = 1
    /\ yieldedFrom[Len(yieldedFrom)][2] >= 2

\* whether the next step of worker i can be taken in the current state
WorkerCanProceed(i) ==
    CASE worker[i].pc = "fetch" ->
            ENABLED (\/ ApprovalsWorkerResponse(i, OkStatus)
                     \/ AuditWorkerResponse(i, OkStatus))
      [] worker[i].pc = "push" -> ENABLED AuditWorkerPush(i)
      [] worker[i].pc = "sleep" -> ENABLED AuditWorkerRetry(i)
      [] OTHER -> TRUE

\* C18: no backpressure and no cancellation: in every state, whatever the
\* length of the queue and whether or not the caller pulls, every worker that
\* has not ended can take its next step (have its request answered, push,
\* retry), and the queue holds every record pushed and not yet shifted by the
\* merge loop.
C18_NoBackpressure ==
    /\ \A i \in DOMAIN worker : WorkerCanProceed(i)
    /\ Len(queue) = PushedBy(Len(worker)) - (totalEntriesFetched + totalDuplicates)

\* the caller has not pulled again after the first record: both workers have
\* run to their end and the queue holds every other record they pushed
C18_Witness ==
    /\ cpc = "yield"
    /\ Len(yielded) = 1
    /\ Len(worker) = 2
    /\ \A i \in DOMAIN worker : worker[i].pc = "done"
    /\ PushedBy(Len(worker)) > maxRecordsPerRequest
    /\ Len(queue) = PushedBy(Len(worker)) - 1

\* C19: no cross-worker cancellation: the failure of a worker and the raising
\* of the error by the coordinator leave the sibling workers as they are, and
\* after the error was raised every sibling that has not ended can still take
\* its next step (request answered, push with its progress events, retry);
\* the generator stays failed and yields none of the records left in or later
\* pushed into the queue.
C19_NoCrossWorkerCancellation ==
    /\ [](cpc = "failed" => \A i \in DOMAIN worker : WorkerCanProceed(i))
    /\ [][/\ (cpc = "failed" =>
                (cpc' = "failed" /\ yielded' = yielded /\ raised' = raised))
           /\ (DOMAIN worker' = DOMAIN worker =>
                (\A i \in DOMAIN worker, j \in DOMAIN worker :
                    (i # j /\ worker[j].pc # "failed" /\ worker'[j].pc = "failed") =>
                       (worker'[i] = worker[i])))
           /\ ((cpc # "failed" /\ cpc' = "failed") =>
                (worker' = worker /\ queue' = queue /\ activeChunks' = activeChunks))
          ]_vars

\* after worker 1 failed and its error was raised, worker 2 has completed its
\* chunk: its records are in the queue, and stay there
C19_Witness ==
    /\ cpc = "failed"
    /\ Len(worker) = 2
    /\ worker[1].pc = "failed"
    /\ worker[2].pc = "done"
    /\ yielded = <<>>
    /\ Len(queue) = worker[2].chunkEntries
    /\ Len(queue) > 0
    /\ events[Len(events)].type = "chunk_complete"

\* C20: the error slot holds the first observed error: once hasError holds an
\* error no later failure replaces it, and the error the merge loop raises is
\* the one the slot holds.
C20_FirstErrorKept ==
    [][/\ (hasError # NoError => hasError' = hasError)
       /\ ((cpc \in {"yield", "wait"} /\ raised' # raised) => raised' = hasError)
      ]_vars

\* the number of events of the given type emitted so far
RECURSIVE CountType(_, _)
CountType(evs, type) ==
    IF evs = <<>> THEN 0
    ELSE (IF Head(evs).type = type THEN 1 ELSE 0) + CountType(Tail(evs), type)

\* C21: a parallel engine emits 'start' exactly once, before any other
\* progress event: whenever events have been emitted the first is 'start' and
\* no other is, so every 'complete' comes after a 'start', also on the path of
\* zero records.
C21_StartFirstAndOnce ==
    events # <<>> =>
       /\ events[1].type = "start"
       /\ CountType(events, "start") = 1

\* C22: the count probe of getAllApprovalRequestsParallel is covered by the
\* retry policy: an error raised to the caller for the probe (no chunk index)
\* is never a 429 or a 5xx answer, these being retried.
C22_ProbeIsRetried ==
    (cpc = "failed" /\ raised.chunk = -1) =>
       ~(raised.status >= 500 \/ raised.status = RateLimited)

\* C23: worker cursor invariant of getAllApprovalRequestsParallel: for the worker
\* of chunk [s, e), currentOffset = s + chunkEntries; the limit of every request
\* it has outstanding is min(e - currentOffset, 200), at least 1, and the
\* requested window [currentOffset, currentOffset + limit) lies inside the
\* chunk; it has pushed at most e - s records, and on a listing that does not
\* change every record it pushed (queued or already yielded) is the one at
\* offset s + rank - 1 of its chunk.
C23_WorkerCursor ==
    engine = "approvals" =>
       /\ \A i \in DOMAIN worker :
             LET s == chunks[i].startOffset
                 e == chunks[i].endOffset
                 w == worker[i]
             IN  /\ w.currentOffset = s + w.chunkEntries
                 /\ w.chunkEntries <= e - s
                 /\ w.pc = "fetch" =>
                       /\ WorkerLimit(i) = Min(e - w.currentOffset, maxRecordsPerRequest)
                       /\ WorkerLimit(i) >= 1
                       /\ s <= w.currentOffset
                       /\ w.currentOffset + WorkerLimit(i) <= e
       /\ \A k \in DOMAIN queue :
             LET s == chunks[queue[k].chunk].startOffset
                 e == chunks[queue[k].chunk].endOffset
             IN  /\ queue[k].rank \in 1..(e - s)
                 /\ drift = 0 => queue[k]._id = dataset.first + s + (queue[k].rank - 1)
       /\ \A k \in DOMAIN yieldedFrom :
             LET s == chunks[yieldedFrom[k][1]].startOffset
                 e == chunks[yieldedFrom[k][1]].endOffset
             IN  /\ yieldedFrom[k][2] \in 1..(e - s)
                 /\ drift = 0 => yielded[k] = dataset.first + s + (yieldedFrom[k][2] - 1)

\* a worker has its second page request outstanding, for the one record its
\* first page of 200 left of the chunk
C23_Witness ==
    /\ engine = "approvals"
    /\ \E i \in DOMAIN worker :
          /\ worker[i].pc = "fetch"
          /\ worker[i].requests = 2
          /\ worker[i].chunkEntries = maxRecordsPerRequest
          /\ WorkerLimit(i) = 1

\* C24: a worker of getAllApprovalRequestsParallel leaves its page loop exactly
\* when its counter has reached the chunk's target item count or a page came
\* back with zero items, and otherwise issues one more request; with every
\* request answered it has issued at most (e - s) + 1 page requests, also when
\* the listing shrank after the count probe or pages came back short.
C24_WorkerLoopEnds ==
    /\ [](\A i \in DOMAIN worker :
             worker[i].requests <= (chunks[i].endOffset - chunks[i].startOffset) + 1)
    /\ [][\A i \in DOMAIN worker :
             (i \in DOMAIN worker' /\ worker[i].pc = "fetch" /\ worker'[i] # worker[i]) =>
                LET target == chunks[i].endOffset - chunks[i].startOffset
                    got == worker'[i].chunkEntries - worker[i].chunkEntries
                    ends == worker'[i].chunkEntries >= target \/ got = 0
                IN  /\ worker'[i].pc = (IF ends THEN "done" ELSE "fetch")
                    /\ worker'[i].requests =
                          worker[i].requests + (IF ends THEN 0 ELSE 1)]_vars

\* a worker has left its loop on a page of zero items, short of its target: the
\* listing had lost records after the count probe
C24_Witness ==
    \E i \in DOMAIN worker :
       /\ worker[i].pc = "done"
       /\ worker[i].requests >= 2
       /\ drift > 0
       /\ worker[i].chunkEntries \in 1..(chunks[i].endOffset - chunks[i].startOffset - 1)

\* a step of the generator from a suspension point of the merge loop
MergeLoopRuns ==
    /\ cpc \in {"yield", "wait"}
    /\ worker' = worker
    /\ dataset' = dataset

\* C25: with workers that all terminate and a caller that keeps pulling the
\* merge loop terminates: the stream ends with 'complete' or with a raised
\* error; and a run of the merge loop that finds workers active and leaves the
\* queue empty without yielding or raising suspends in the 10 ms wait, the
\* stream ending only when no worker is active and the queue is empty.
C25_MergeLoopTerminates ==
    /\ <>(cpc \in {"done", "failed"})
    /\ [][MergeLoopRuns =>
            /\ (activeChunks > 0 /\ queue' = <<>> /\ yielded' = yielded
                   /\ cpc' # "failed") => cpc' = "wait"
            /\ cpc' = "done" => (activeChunks = 0 /\ queue' = <<>>)]_vars

\* the stream has ended with a raised error after records were yielded, and
\* every worker has terminated, one of them by error
C25_Witness ==
    /\ cpc = "failed"
    /\ yielded # <<>>
    /\ Len(worker) >= 2
    /\ \A i \in DOMAIN worker : worker[i].pc \in {"done", "failed"}

\* the records the sequential fetcher yields from url on, yc being yielded so
\* far, when every request is answered 200
RECURSIVE FaultFreeRun(_, _)
FaultFreeRun(url, yc) ==
    IF url = NoUrl THEN <<>>
    ELSE LET pg == SeqPage(fetcher, dataset, url)
             after_ == yc + pg.length
         IN  pg.items \o
             FaultFreeRun(FollowingUrl(fetcher, url, pg, after_, max), after_)

\* whether a retried answer (429, 5xx, network error) is in the log
RetriedAnswer(j) ==
    fetchLog[j].status = NetworkError \/ Retried(fetchLog[j].status)

\* C26: retries never advance the cursor: whatever transient failures (429,
\* 5xx, network error) are interleaved with the successful answers, the records
\* a sequential fetcher has yielded are a prefix of the sequence it yields from
\* the same listing with no failure, and the whole of it once the fetcher is
\* done: no page is skipped and none is yielded twice.
C26_RetriesKeepCursor ==
    spc # "idle" =>
       LET expected == FaultFreeRun(InitialUrl(fetcher, max, offset), 0)
       IN  /\ Len(yielded) <= Len(expected)
           /\ yielded = SubSeq(expected, 1, Len(yielded))
           /\ spc = "done" => yielded = expected

\* a run of two pages is done after its first request was retried and its
\* second, for the page after the first 20 records, as well
C26_Witness ==
    /\ spc = "done"
    /\ Len(yielded) = MaxSeqTotal
    /\ \E j \in DOMAIN fetchLog : RetriedAnswer(j) /\ fetchLog[j].url.offset = 0
    /\ \E j \in DOMAIN fetchLog : RetriedAnswer(j) /\ fetchLog[j].url.offset > 0

\* the answer a request of the sequential fetcher got in this step
Answered == fetchLog'[Len(fetchLog')]

\* what the sequential fetcher does in the step in which a request is answered
AnswerIsFollowed ==
    (spc = "fetch" /\ fetchLog' # fetchLog) =>
       IF Answered.status = NetworkError \/ Retried(Answered.status)
       THEN /\ spc' = "sleep"
            /\ nextUrl' = nextUrl
            /\ raised' = NoError
            /\ yielded' = yielded
       ELSE \/ Answered.status # OkStatus
            \/ /\ spc' \in {"yield", "fetch", "done"}
               /\ raised' = NoError
               /\ (spc' = "yield") <=> (yielded' # yielded)

\* the sleep of a retry ends in the same request being issued again
SleepEndsInRetry ==
    (spc = "sleep") =>
       /\ spc' = "fetch"
       /\ nextUrl' = nextUrl
       /\ raised' = NoError

\* C27: there is no retry ceiling: however many times the request was retried
\* before, a 5xx, a 429 or a network failure makes the sequential fetcher sleep
\* and re-issue the same request, raising nothing, yielding nothing and not
\* terminating; every request it has outstanding can still be answered 200,
\* and a 200 answer makes it proceed to the records of the page or to its end.
C27_NoRetryCeiling ==
    /\ [](spc = "fetch" => ENABLED SeqResponse(OkStatus, <<>>))
    /\ [][AnswerIsFollowed /\ SleepEndsInRetry]_vars

\* the first request was answered 503 MaxSeqFaults times in a row and is
\* outstanding once more, nothing raised and nothing yielded
C27_Witness ==
    /\ spc = "fetch"
    /\ raised = NoError
    /\ yielded = <<>>
    /\ Len(fetchLog) = MaxSeqFaults
    /\ \A j \in DOMAIN fetchLog :
          /\ fetchLog[j].status = 503
          /\ fetchLog[j].url = nextUrl

\* the 'fetching' events emitted so far for the chunk of worker i
FetchingOf(i) ==
    SelectSeq(events, LAMBDA e : e.type = "fetching" /\ e.chunkIndex = i - 1)

\* C28: a worker emits a 'fetching' event exactly each time its counter has
\* advanced by 50 since its last report: the reports of a chunk are those of
\* chunkEntries = 50, 100, 150, ... up to the counter, in this order, each with
\* the chunk's index and entriesCount = chunkEntries at the report; after every
\* push chunkEntries - lastReportedCount < 50.
C28_FetchingEveryInterval ==
    /\ \A i \in DOMAIN worker :
          /\ worker[i].chunkEntries - worker[i].lastReportedCount \in 0..(reportInterval - 1)
          /\ worker[i].lastReportedCount =
                reportInterval * (worker[i].chunkEntries \div reportInterval)
          /\ Len(FetchingOf(i)) = worker[i].chunkEntries \div reportInterval
          /\ \A k \in DOMAIN FetchingOf(i) :
                FetchingOf(i)[k].entriesCount = k * reportInterval
    /\ \A k \in DOMAIN events :
          events[k].type = "fetching" => (events[k].chunkIndex + 1) \in DOMAIN worker

\* a worker of the audit engine, pushing entry by entry, has reported twice and
\* pushed at least one entry since
C28_Witness ==
    \E i \in DOMAIN worker :
       /\ worker[i].chunkEntries > 2 * reportInterval
       /\ worker[i].lastReportedCount = 2 * reportInterval
       /\ Len(FetchingOf(i)) = 2
       /\ engine = "audit"

\* the positions in events of the events of type t for the chunk of worker i
EventsOf(i, t) ==
    {k \in DOMAIN events : events[k].chunkIndex = i - 1 /\ events[k].type = t}

\* the events of the chunk of worker i are one 'chunk_start', then 'fetching'
\* events, then one 'chunk_complete' if the worker ended without error and
\* none otherwise
ChunkEventOrder(i) ==
    LET starts == EventsOf(i, "chunk_start")
        reports == EventsOf(i, "fetching")
        ends == EventsOf(i, "chunk_complete")
    IN  /\ Cardinality(starts) = 1
        /\ Cardinality(ends) = (IF worker[i].pc = "done" THEN 1 ELSE 0)
        /\ \A a \in starts, b \in reports \cup ends : a < b
        /\ \A a \in reports, b \in ends : a < b

\* 'complete' is the last event and comes once
CompleteIsLast ==
    \A k \in DOMAIN events : events[k].type = "complete" => k = Len(events)

\* C29: per-chunk event order: the events of every chunk are one 'chunk_start',
\* then zero or more 'fetching', then at most one 'chunk_complete' (exactly one
\* iff the worker ended without error); 'complete' is emitted at most once,
\* after the 'chunk_complete' of every chunk, and no progress event follows it.
C29_ChunkEventOrder ==
    /\ \A i \in DOMAIN worker : ChunkEventOrder(i)
    /\ CompleteIsLast
    /\ \A k \in DOMAIN events :
          events[k].type = "complete" =>
             \A i \in DOMAIN worker : \E c \in EventsOf(i, "chunk_complete") : c < k

\* p is 100 * c / t rounded to the nearest integer, halves up
IsRounded(p, c, t) ==
    /\ ((2 * p) - 1) * t <= 200 * c
    /\ 200 * c < ((2 * p) + 1) * t

\* C30: in every progress event 0 <= completedChunks <= totalChunks and the
\* percentage lies in 0..100; along the events emitted completedChunks and
\* percentage never decrease, nor does totalEntriesFetched along the events
\* that carry it; each 'chunk_complete' reports completedChunks one above the
\* event before it, with percentage = round(100 * completedChunks / totalChunks).
C30_ProgressAccounting ==
    \A k \in DOMAIN events :
       LET e == events[k]
       IN  /\ 0 <= e.completedChunks
           /\ e.completedChunks <= e.totalChunks
           /\ e.percentage \in 0..100
           /\ (e.type \in WithFetched) <=> (e.totalEntriesFetched >= 0)
           /\ k > 1 =>
                 /\ events[k - 1].completedChunks <= e.completedChunks
                 /\ events[k - 1].percentage <= e.percentage
           /\ \A j \in 1..(k - 1) :
                 (e.type \in WithFetched /\ events[j].type \in WithFetched) =>
                    events[j].totalEntriesFetched <= e.totalEntriesFetched
           /\ e.type = "chunk_complete" =>
                 /\ k > 1
                 /\ e.completedChunks = events[k - 1].completedChunks + 1
                 /\ IsRounded(e.percentage, e.completedChunks, e.totalChunks)

\* two chunks have completed, the first at 50 percent, and records were
\* yielded between the two reports
C30_Witness ==
    \E j, k \in DOMAIN events :
       /\ j < k
       /\ events[j].type = "chunk_complete"
       /\ events[j].percentage = 50
       /\ events[k].type = "chunk_complete"
       /\ events[k].completedChunks = 2
       /\ events[k].totalEntriesFetched > events[j].totalEntriesFetched

\* the generator has returned or thrown
Terminal == cpc \in {"done", "failed"}

\* C31: coordinator lifecycle: the stream ends in exactly one of Completed
\* ('complete' emitted once, nothing raised) and Failed (error raised, no
\* 'complete'); Completed is reached only with no worker active and every
\* queued record processed, each pushed record having been yielded or counted
\* as a duplicate; once the stream has ended nothing more is yielded, raised
\* or emitted by the generator.
C31_Lifecycle ==
    /\ [](/\ (cpc = "done") <=> (CountType(events, "complete") = 1)
          /\ (cpc = "failed") <=> (raised # NoError)
          /\ cpc # "done" => CountType(events, "complete") = 0
          /\ cpc = "done" =>
                /\ raised = NoError
                /\ activeChunks = 0
                /\ queue = <<>>
                /\ PushedBy(Len(worker)) = Len(yielded) + totalDuplicates)
    /\ [][Terminal =>
            /\ cpc' = cpc
            /\ yielded' = yielded
            /\ raised' = raised
            /\ CountType(events', "complete") = CountType(events, "complete")]_vars

\* the stream is Completed after Draining: the last worker pushed its page of
\* 100 records and ended in one step, so these were queued with no worker
\* active, and all 201 records were yielded before 'complete'
C31_Witness ==
    /\ cpc = "done"
    /\ Len(worker) = 2
    /\ Len(yielded) = MaxTotalCount
    /\ CompletedWith(MaxTotalCount, 0)

\* C32: conservation invariant of the merge: in every reachable state the
\* records pushed by all workers so far are those counted in
\* totalEntriesFetched, those counted in totalDuplicates and those still in
\* the queue, and totalEntriesFetched is the size of seenIds: no pushed record
\* is lost or counted twice, whatever the interleaving of pushes and drains.
C32_Conservation ==
    /\ PushedBy(Len(worker)) = totalEntriesFetched + totalDuplicates + Len(queue)
    /\ totalEntriesFetched = Cardinality(seenIds)
    /\ totalEntriesFetched = Len(yielded)

\* records were yielded, a duplicate was dropped, and records pushed since are
\* waiting in the queue
C32_Witness ==
    /\ totalDuplicates > 0
    /\ totalEntriesFetched > 0
    /\ queue # <<>>
    /\ Len(worker) >= 2

\* the launched workers whose program counter is in pcs
WorkersAt(pcs) == {i \in DOMAIN worker : worker[i].pc \in pcs}

\* the workers that terminate in this step
Terminating ==
    {i \in DOMAIN worker :
        /\ worker[i].pc \notin {"done", "failed"}
        /\ i \in DOMAIN worker'
        /\ worker'[i].pc \in {"done", "failed"}}

\* C33: active-worker countdown: activeChunks is the number of launched
\* workers that have not terminated and is never negative; completedChunks is
\* the number that ended without error, so completedChunks + failed workers +
\* activeChunks = chunks.length; a worker's termination, by success or by
\* failure, lowers activeChunks by exactly one, and nothing else lowers it.
C33_ActiveCountdown ==
    /\ [](/\ activeChunks >= 0
          /\ activeChunks = Cardinality(DOMAIN worker \ WorkersAt({"done", "failed"}))
          /\ completedChunks = Cardinality(WorkersAt({"done"}))
          /\ completedChunks + Cardinality(WorkersAt({"failed"})) + activeChunks
                = Len(chunks))
    /\ [][worker # <<>> =>
            activeChunks' = activeChunks - Cardinality(Terminating)]_vars

\* of two workers one has ended without error and the other by failure
C33_Witness ==
    /\ Len(chunks) = 2
    /\ activeChunks = 0
    /\ completedChunks = 1
    /\ Cardinality(WorkersAt({"failed"})) = 1

\* the state right after the count probe was answered with the non-ok status:
\* the error is raised, nothing was emitted, launched or yielded
ProbeFailedWith(status) ==
    /\ cpc' = "failed"
    /\ raised' = [status |-> status, chunk |-> -1]
    /\ events' = <<>>
    /\ worker' = <<>>
    /\ chunks' = <<>>
    /\ yielded' = <<>>

\* C34: a non-2xx answer to the count probe of getAllApprovalRequestsParallel
\* makes the call raise 'Failed to fetch total count' in the first pull: every
\* such answer leads to the raised error, and when that error is raised no
\* progress event was emitted, no worker launched and no record yielded.
C34_ProbeFailure ==
    /\ cpc = "probe" =>
          \A status \in NonOkStatuses :
             /\ ENABLED (ProbeResponse(status) /\ ProbeFailedWith(status))
             /\ ~ENABLED (ProbeResponse(status) /\ ~ProbeFailedWith(status))
    /\ (cpc = "failed" /\ raised.chunk = -1) =>
          /\ engine = "approvals"
          /\ raised.status \in NonOkStatuses
          /\ events = <<>>
          /\ worker = <<>>
          /\ yielded = <<>>
          /\ totalEntriesFetched = 0

\* the count probe was answered 404 and the call has raised it
C34_Witness ==
    /\ engine = "approvals"
    /\ cpc = "failed"
    /\ raised = [status |-> 404, chunk |-> -1]
    /\ dataset.count > 0

\* request j was answered 429 with no X-RateLimit-Reset header
RateLimitedNoReset(j) ==
    fetchLog[j].status = RateLimited /\ fetchLog[j].reset = <<>>

\* C35: a 429 without X-RateLimit-Reset header is never fatal in the
\* sequential fetchers: no fetcher raises a 429, and after such an answer the
\* fetcher sleeps the fixed 1000 ms and its next request, issued 1000 ms after
\* the answer was read, is for the same URL.
C35_RateLimitWithoutReset ==
    /\ raised.status # RateLimited
    /\ \A j \in DOMAIN fetchLog :
          RateLimitedNoReset(j) =>
             /\ j = Len(fetchLog) => /\ spc \in {"sleep", "fetch"}
                                     /\ waitMs = retryDelayMs
                                     /\ nextUrl = fetchLog[j].url
             /\ j < Len(fetchLog) =>
                   /\ fetchLog[j + 1].url = fetchLog[j].url
                   /\ fetchLog[j + 1].at = fetchLog[j].answeredAt + retryDelayMs

\* the request for the second page was answered 429 without the header, issued
\* again and answered 200
C35_Witness ==
    \E j \in DOMAIN fetchLog :
       /\ RateLimitedNoReset(j)
       /\ fetchLog[j].url.offset > 0
       /\ j < Len(fetchLog)
       /\ fetchLog[j + 1].status = OkStatus

\* the limit getAllApprovalRequests asks with at offset off, the records
\* before off having been yielded
ExpectedLimit(off) ==
    IF max # Unset THEN Min(max - (off - offset), maxRecordsPerRequest)
    ELSE defaultLimit

\* whether the page just yielded, requested at nextUrl, calls for a further one
FurtherPage ==
    /\ page.length > 0
    /\ page.totalCount # 0
    /\ nextUrl.offset + page.length < page.totalCount
    /\ max = Unset \/ Len(yielded) < max

\* the step in which the fetcher leaves the records of a page
AfterPage ==
    /\ (spc = "yield" /\ spc' # "yield") =>
          IF FurtherPage
          THEN /\ spc' = "fetch"
               /\ nextUrl'.offset = nextUrl.offset + page.length
          ELSE spc' = "done"
    /\ (spc = "fetch" /\ spc' = "done") => yielded' = yielded

\* C36: getAllApprovalRequests requests a further page exactly if the page it
\* yielded was non-empty, its response carried a non-zero totalCount,
\* offset + items.length < totalCount and, with max set, fewer than max records
\* were yielded; otherwise it stops, so a response without totalCount ends the
\* stream after its page; with max = m at most m records are yielded and the
\* limit of every request is min(remaining, 200).
C36_ApprovalsPagination ==
    /\ [](/\ max # Unset => Len(yielded) <= max
          /\ \A j \in DOMAIN fetchLog :
                fetchLog[j].url.limit = ExpectedLimit(fetchLog[j].url.offset)
          /\ spc = "fetch" => nextUrl.limit = ExpectedLimit(nextUrl.offset))
    /\ [][AfterPage]_vars

\* on a listing of 41 records the second page was answered without totalCount
\* and the stream has ended after it, one record short
C36_Witness ==
    /\ spc = "done"
    /\ max = Unset
    /\ dataset.count = (2 * defaultLimit) + 1
    /\ Len(fetchLog) = 2
    /\ Len(yielded) = 2 * defaultLimit

\* the per-chunk counters of the worker state w
Counters(w) == <<w.chunkEntries, w.lastReportedCount, w.currentOffset>>

\* the workers whose state changes in this step
Stepping == {i \in DOMAIN worker : i \in DOMAIN worker' /\ worker'[i] # worker[i]}

\* the workers whose counters change in this step
CountersChanging ==
    {i \in DOMAIN worker :
        i \in DOMAIN worker' /\ Counters(worker'[i]) # Counters(worker[i])}

\* the state of the merge: what only the coordinator's loop may change
MergeVars == <<seenIds, totalEntriesFetched, totalDuplicates>>

\* a step of the coordinator: the generator moves, yields or shifts the queue
CoordinatorSteps ==
    \/ cpc' # cpc
    \/ yielded' # yielded
    \/ MergeVars' # MergeVars

\* C37: worker state is exclusively owned: in every step at most one worker
\* moves, only a worker that moves has its chunkEntries, lastReportedCount or
\* currentOffset changed, and a step of the coordinator changes no launched
\* worker; seenIds, totalEntriesFetched and totalDuplicates change only in
\* steps of the merge loop, in which no worker moves.
C37_ExclusiveOwnership ==
    [][/\ Cardinality(Stepping) <= 1
       /\ CountersChanging \subseteq Stepping
       /\ CoordinatorSteps => Stepping = {}
       /\ MergeVars' # MergeVars =>
             /\ cpc \in {"yield", "wait"}
             /\ Stepping = {}
             /\ hasError' = hasError
             /\ activeChunks' = activeChunks
             /\ completedChunks' = completedChunks]_vars

\* worker 1 has failed while worker 2, having pushed records, was still at work
C37_Witness ==
    /\ Len(worker) = 2
    /\ worker[1].pc = "failed"
    /\ worker[2].pc \notin {"done", "failed"}
    /\ worker[2].chunkEntries > 0

====
